---- MODULE Spec2Model ----
(***************************************************************************)
(* Presenter-side zView session engine of BasicPresenterSample.cpp:        *)
(* the main loop (message, updateZview, drawZview), the connection state   *)
(* dispatch, mode setup / teardown, and the frame pump.                     *)
(*                                                                         *)
(* Every handler of the program is a function from a "world" record (the   *)
(* program's globals plus the transport's per-connection records) to the   *)
(* world after the handler returned.  The field ops is the list of the      *)
(* transport / resource calls the handler issued, in program order; seen   *)
(* is the list of (width, height) pairs the remote side could read after   *)
(* each settings call.  Both are cleared at the start of every step.       *)
(***************************************************************************)
EXTENDS Integers, Sequences, FiniteSets, TLC

----------------------------------------------------------------------------
(* Bounds *)

MaxConns == 2        \* connection handles ever created by the transport
MaxFrame == 2        \* cap on g_zViewStandardModeFrameNumber
MaxTag == 1          \* incoming frame tags are 0..MaxTag
MaxSkips == 2        \* cap on the counted length of a run of skipped ticks
MaxSetting == 2      \* F32 setting bounds min, max are in -MaxSetting..MaxSetting
MaxDelta == 2        \* increments are in -MaxDelta..MaxDelta
MaxFaults == 1       \* calls that fail in one run
MaxIntrinsic == 2    \* camera intrinsics are built from 0..MaxIntrinsic
MaxKeys == 3         \* cap on the number of overlay control key presses
MaxArSize == 2       \* augmented reality image sides are in 1..MaxArSize

----------------------------------------------------------------------------
(* Program constants *)

NULL == 0
WindowWidthInit == 1024
WindowHeightInit == 768
NumSupportedModes == 2
ZVIEW_AUGMENTED_REALITY_MODE_NUM_MASK_QUADS == 8
ZVIEW_AUGMENTED_REALITY_MODE_MASK_CUBE_SIDE_LENGTH_METERS == 10

ZVIEW_NODE_STATUS_NOT_CONNECTED == "Awaiting connection"
ZVIEW_NODE_STATUS_CONNECTED == "Connected"

NullMode == "NullMode"
StandardMode == "Standard"
AugmentedRealityMode == "AugmentedReality"
Modes == {StandardMode, AugmentedRealityMode}

\* the array supportedModes[] handed to zvSetSupportedModes
SupportedModes == <<StandardMode, AugmentedRealityMode>>

ConnectionStates ==
    {"Initialization", "AwaitingAcceptance", "SwitchingModes", "NoMode",
     "ModeSetup", "ModeActive", "ModePaused", "ModeResuming",
     "SettingsChange", "Closed", "Error"}

VideoRecordingStates ==
    {"NotAvailable", "NotRecording", "Recording", "Paused", "Finished",
     "VrError"}

Conns == 1..MaxConns
\* the window (and image) resolutions of the model: the initial one and
\* the 640 x 480 of the mode switch scenario
Resolutions == {<<WindowWidthInit, WindowHeightInit>>, <<640, 480>>}

\* the image resolutions the remote side chooses for augmented reality mode
ArResolutions == {<<640, 480>>}
Tags == 0..MaxTag
NoFrame == -1

\* the handles released by tearDownZviewStandardMode, in program order
StdOrder ==
    <<"stdViewport", "stdFramebuffer", "stdTexture", "stdRenderbuffer">>

\* the handles released by tearDownZviewAugmentedRealityMode, in program order
ArOrder ==
    <<"arMaskVertexArray", "arMaskVertexBuffer", "arBackgroundVertexArray",
      "arBackgroundVertexBuffer", "arMaskFramebuffer", "arFramebuffer",
      "arTexture", "arRenderbuffer">>

\* the handles created by setUpZviewStandardMode, in program order
StdAllocOrder ==
    <<"stdViewport", "stdTexture", "stdRenderbuffer", "stdFramebuffer">>

\* the handles created by setUpZviewAugmentedRealityMode, in program order
ArAllocOrder ==
    <<"arMaskVertexArray", "arMaskVertexBuffer", "arBackgroundVertexArray",
      "arBackgroundVertexBuffer", "arTexture", "arRenderbuffer",
      "arMaskFramebuffer", "arFramebuffer">>

Range(s) == {s[i] : i \in 1..Len(s)}
Kinds == Range(StdOrder) \cup Range(ArOrder)

----------------------------------------------------------------------------
(* The call log *)

Op(w, o, c, v, k) ==
    [w EXCEPT !.ops = Append(@, [op |-> o, c |-> c, v |-> v, k |-> k])]

\* CHECK_ZV_ERROR / CHECK_ZC_ERROR on an error code: the message box, then
\* "return false".  The log entry names the call that failed.
Failed(w, o, c) == [Op(w, "failed", c, 0, o) EXCEPT !.ok = FALSE]

\* a call that can fail (w.failOp names the call that fails in this
\* handler) with its CHECK_ZV_ERROR; nothing runs after a "return false"
Call(w, o, c, v, k) ==
    IF ~w.ok THEN w
    ELSE IF w.failOp = o THEN Failed(w, o, c)
    ELSE Op(w, o, c, v, k)

\* the same for a getter whose successful calls are not logged
Query(w, o, c) ==
    IF ~w.ok THEN w
    ELSE IF w.failOp = o THEN Failed(w, o, c)
    ELSE w

\* the remote side reads the committed settings of connection c
Observe(w, c) ==
    [w EXCEPT !.seen = Append(@, <<w.setW[c], w.setH[c]>>)]

----------------------------------------------------------------------------
(* Settings store of the transport (zvBeginSettingsBatch, zvSetSettingU16, *)
(* zvEndSettingsBatch): writes inside a batch are staged and become        *)
(* visible together at the end of the batch; a write outside a batch is    *)
(* visible at once.  A visible change of the image size while the mode is  *)
(* active sends the connection to the settings-change state.               *)

NoteSettingsChange(w, c, old) ==
    IF w.cstate[c] = "ModeActive" /\ old # <<w.setW[c], w.setH[c]>>
    THEN [w EXCEPT !.cstate[c] = "SettingsChange"]
    ELSE w

zvBeginSettingsBatch(w, c) ==
    IF ~w.ok THEN w
    ELSE IF w.failOp = "zvBeginSettingsBatch"
    THEN Failed(w, "zvBeginSettingsBatch", c)
    ELSE
    Observe(Op([w EXCEPT !.batchOpen[c] = TRUE,
                         !.stagedW[c] = NULL,
                         !.stagedH[c] = NULL],
               "zvBeginSettingsBatch", c, 0, ""), c)

zvSetSettingU16(w, c, key, val) ==
    LET old == <<w.setW[c], w.setH[c]>>
        w1 == IF w.batchOpen[c]
              THEN IF key = "width"
                   THEN [w EXCEPT !.stagedW[c] = val]
                   ELSE [w EXCEPT !.stagedH[c] = val]
              ELSE IF key = "width"
                   THEN NoteSettingsChange([w EXCEPT !.setW[c] = val], c, old)
                   ELSE NoteSettingsChange([w EXCEPT !.setH[c] = val], c, old)
    IN  IF ~w.ok THEN w
        ELSE IF w.failOp = "zvSetSettingU16"
        THEN Failed(w, "zvSetSettingU16", c)
        ELSE Observe(Op(w1, "zvSetSettingU16", c, val, key), c)

zvEndSettingsBatch(w, c) ==
    LET old == <<w.setW[c], w.setH[c]>>
        w1 == [w EXCEPT
                 !.setW[c] = IF w.stagedW[c] # NULL THEN w.stagedW[c] ELSE @,
                 !.setH[c] = IF w.stagedH[c] # NULL THEN w.stagedH[c] ELSE @,
                 !.batchOpen[c] = FALSE,
                 !.stagedW[c] = NULL,
                 !.stagedH[c] = NULL]
    IN  IF ~w.ok THEN w
        ELSE IF w.failOp = "zvEndSettingsBatch"
        THEN Failed(w, "zvEndSettingsBatch", c)
        ELSE Observe(Op(NoteSettingsChange(w1, c, old),
                        "zvEndSettingsBatch", c, 0, ""), c)

\* the four calls that write the image resolution (width, height) of
\* connection c as one batch
WriteImageResolution_Unbatched(w, c, width, height) ==
    zvSetSettingU16(zvSetSettingU16(Observe(w, c), c, "width", width),
                    c, "height", height)

WriteImageResolution(w, c, width, height) ==
    zvEndSettingsBatch(
        zvSetSettingU16(
            zvSetSettingU16(zvBeginSettingsBatch(Observe(w, c), c),
                            c, "width", width),
            c, "height", height),
        c)

----------------------------------------------------------------------------
(* Mode resources *)

\* glDelete* / zcDestroyViewport of one handle variable, guarded by the
\* handle being set, followed by clearing the handle variable
\* (the size of the standard mode render target goes with its texture)
Delete(w, k) ==
    IF k = "stdTexture"
    THEN [w EXCEPT !.live[k] = @ - 1, !.texW = 0, !.texH = 0]
    ELSE [w EXCEPT !.live[k] = @ - 1]

ReleaseOne_KeepHandle(w, k) ==
    IF w.hnd[k] # NULL
    THEN Op(Delete(w, k), "release", 0, 0, k)
    ELSE w

ReleaseOne(w, k) ==
    IF ~w.ok THEN w
    ELSE IF w.hnd[k] # NULL
    THEN IF k = "stdViewport" /\ w.failOp = "zcDestroyViewport"
         THEN Failed(w, "zcDestroyViewport", 0)
         ELSE Op([Delete(w, k) EXCEPT !.hnd[k] = NULL], "release", 0, 0, k)
    ELSE w

\* glGen* / zcCreateViewport into one handle variable
AllocOne(w, k) ==
    Op([w EXCEPT !.hnd[k] = 1, !.live[k] = @ + 1], "alloc", 0, 0, k)

RECURSIVE ReleaseAll(_, _)
ReleaseAll(w, order) ==
    IF order = <<>> THEN w
    ELSE ReleaseAll(ReleaseOne(w, Head(order)), Tail(order))

RECURSIVE AllocAll(_, _)
AllocAll(w, order) ==
    IF order = <<>> \/ ~w.ok THEN w
    ELSE AllocAll(AllocOne(w, Head(order)), Tail(order))

tearDownZviewStandardMode(w) == ReleaseAll(w, StdOrder)

tearDownZviewAugmentedRealityMode(w) == ReleaseAll(w, ArOrder)

tearDownZviewMode_ReleaseNothing(w) ==
    [Op(w, "tearDownZviewMode", 0, 0, "") EXCEPT !.latestMode = NullMode]

tearDownZviewMode(w) ==
    LET w0 == Op(w, "tearDownZviewMode", 0, 0, "")
        w1 == IF w0.latestMode = StandardMode
              THEN tearDownZviewStandardMode(w0)
              ELSE IF w0.latestMode = AugmentedRealityMode
                   THEN tearDownZviewAugmentedRealityMode(w0)
                   ELSE w0
    IN  IF w1.ok THEN [w1 EXCEPT !.latestMode = NullMode] ELSE w1

\* the first statement of setUpZviewStandardMode
StdSetUpPrologue_NoTearDown(w) == w

StdSetUpPrologue(w) == tearDownZviewStandardMode(w)

setUpZviewStandardMode(w, c) ==
    LET w0 == Op(w, "setUpZviewStandardMode", c, 0, "")
        w1 == StdSetUpPrologue(w0)
        w2 == AllocAll(w1, StdAllocOrder)
    IN  IF ~w2.ok THEN w2
        ELSE [w2 EXCEPT !.texW = w2.stdW,
                        !.texH = w2.stdH,
                        !.frameNumber = 0]

setUpZviewAugmentedRealityMode(w, c) ==
    LET w0 == Op(w, "setUpZviewAugmentedRealityMode", c, 0, "")
        w1 == tearDownZviewAugmentedRealityMode(w0)
        w2 == [w1 EXCEPT !.arW = w1.setW[c], !.arH = w1.setH[c]]
    IN  AllocAll(w2, ArAllocOrder)

----------------------------------------------------------------------------
(* Mode negotiation *)

\* zvCompleteModeSetupPhase: this side has finished the given phase
zvCompleteModeSetupPhase(w, c, ph) ==
    LET w1 == IF w.cstate[c] = "ModeSetup" /\ w.phase[c] = ph
              THEN [w EXCEPT !.localDone[c] = TRUE]
              ELSE w
    IN  IF ~w.ok THEN w
        ELSE Op(w1, "zvCompleteModeSetupPhase", c, 0, ph)

\* the initialization phase of setUpZviewMode for the standard mode
StdInitializationPhase_CompleteFirst(w, c) ==
    LET w2 == zvCompleteModeSetupPhase(w, c, "Initialization")
        w3 == WriteImageResolution(w2, c, w2.winW, w2.winH)
    IN  [w3 EXCEPT !.stdW = w3.winW, !.stdH = w3.winH]

StdInitializationPhase(w, c) ==
    LET w2 == WriteImageResolution(w, c, w.winW, w.winH)
        w3 == [w2 EXCEPT !.stdW = w2.winW, !.stdH = w2.winH]
    IN  IF ~w2.ok THEN w2
        ELSE zvCompleteModeSetupPhase(w3, c, "Initialization")

\* the test "if (isAwaitingCompletion)" that ends setUpZviewMode
ReturnsWhileAwaiting_Never(isAwaitingCompletion) == FALSE

ReturnsWhileAwaiting_Always(isAwaitingCompletion) == TRUE

ReturnsWhileAwaiting(isAwaitingCompletion) == isAwaitingCompletion

\* (the log entry of zvGetConnectionModeSetupPhase holds the phase and, as
\* 1 or 0, the awaiting-completion flag it returned)
setUpZviewMode(w, c) ==
    LET mode == w.smode[c]
        \* "tearDownZviewMode();": the result is dropped
        w0 == IF mode # w.latestMode
              THEN [tearDownZviewMode(w) EXCEPT !.latestMode = mode,
                                                !.ok = TRUE]
              ELSE w
        isAwaitingCompletion == w0.localDone[c]
        w1 == Op(w0, "zvGetConnectionModeSetupPhase", c,
                 IF isAwaitingCompletion THEN 1 ELSE 0, w0.phase[c])
    IN  IF ReturnsWhileAwaiting(isAwaitingCompletion) THEN w1
        ELSE IF w1.phase[c] = "Initialization"
        THEN IF mode = StandardMode
             THEN StdInitializationPhase(w1, c)
             ELSE IF mode = AugmentedRealityMode
             THEN zvCompleteModeSetupPhase(w1, c, "Initialization")
             ELSE w1
        ELSE IF mode = StandardMode
             THEN zvCompleteModeSetupPhase(
                      setUpZviewStandardMode(w1, c), c, "Completion")
             ELSE IF mode = AugmentedRealityMode
             THEN zvCompleteModeSetupPhase(
                      setUpZviewAugmentedRealityMode(w1, c), c, "Completion")
             ELSE w1

----------------------------------------------------------------------------
(* Connection acceptance *)

\* zvCloseConnection: the local side closes the connection with a reason
zvCloseConnection(w, c, reason) ==
    Op([w EXCEPT !.cstate[c] = IF @ = "Error" THEN @ ELSE "Closed",
                 !.closeReq[c] = reason],
       "zvCloseConnection", c, 0, reason)

zvSetNodeStatus(w, status) ==
    IF ~w.ok THEN w
    ELSE IF w.failOp = "zvSetNodeStatus"
    THEN Failed(w, "zvSetNodeStatus", 0)
    ELSE Op([w EXCEPT !.nodeStatus = status], "zvSetNodeStatus", 0, 0, status)

\* the test "g_zViewActiveConnection == NULL" that guards the accept
CanAccept_Always(w) == TRUE

CanAccept(w) == w.activeConn = NULL

\* the else branch of that test
RejectConnection_Ignore(w, c) == w

RejectConnection(w, c) == zvCloseConnection(w, c, "rejected")

processNewZviewConnection(w, c) ==
    IF c = w.activeConn THEN w
    ELSE IF CanAccept(w)
    THEN LET w1 == Op([w EXCEPT !.accepted[c] = TRUE],
                      "zvAcceptConnection", c, 0, "")
             w2 == [w1 EXCEPT !.activeConn = c]
         IN  IF w.failOp = "zvAcceptConnection"
             THEN Failed(w, "zvAcceptConnection", c)
             ELSE zvSetNodeStatus(w2, ZVIEW_NODE_STATUS_CONNECTED)
    ELSE RejectConnection(w, c)

----------------------------------------------------------------------------
(* Video recording poll.  The handle may already have been destroyed by    *)
(* the state dispatch of the same call of updateZviewConnection; what      *)
(* zvGetVideoRecordingState does with a destroyed handle is not defined,   *)
(* so its outcome is an input: "crash" (the process dies), "fail" (an      *)
(* error code) or any state.                                               *)

\* the body of "if (videoRecordingState == ZV_VIDEO_RECORDING_STATE_ERROR)";
\* zvClearVideoRecordingError takes the recording of a live connection from
\* the error state to the not-recording state
HandleVideoRecordingError_NoClear(w, c) ==
    Op(Op(w, "zvGetVideoRecordingError", c, 0, ""), "logError", c, 0, "")

HandleVideoRecordingError(w, c) ==
    LET w1 == Op(Op(Op(w, "zvGetVideoRecordingError", c, 0, ""),
                    "logError", c, 0, ""),
                 "zvClearVideoRecordingError", c, 0, "")
    IN  IF w1.alive[c] = "live" /\ w1.vr[c] = "VrError"
        THEN [w1 EXCEPT !.vr[c] = "NotRecording"]
        ELSE w1

processZviewVideoRecording(w, c, outcome) ==
    IF w.alive[c] = "destroyed" /\ outcome = "crash"
    THEN [Op(w, "zvGetVideoRecordingState", c, 0, "crash")
             EXCEPT !.ok = FALSE, !.halt = TRUE]
    ELSE IF w.alive[c] = "destroyed" /\ outcome = "fail"
    THEN [Op(w, "zvGetVideoRecordingState", c, 0, "fail") EXCEPT !.ok = FALSE]
    ELSE
    LET videoRecordingState ==
            IF w.alive[c] = "destroyed" THEN outcome ELSE w.vr[c]
        w1 == Op(w, "zvGetVideoRecordingState", c, 0, videoRecordingState)
        w2 == IF videoRecordingState # w1.vrLatest
              THEN Op(w1, "logTransition", c, 0, videoRecordingState)
              ELSE w1
        w3 == IF videoRecordingState = "VrError"
              THEN HandleVideoRecordingError(w2, c)
              ELSE w2
    IN  [w3 EXCEPT !.vrLatest = videoRecordingState]

----------------------------------------------------------------------------
(* Video recording commands (processZviewVideoRecordingKeyPress)           *)

VideoRecordingKeys == {"Q", "R", "P", "F", "S", "D"}

\* values of the video recording quality setting
Qualities == {"480P", "720P", "1080P", "Other"}

\* the transport call that starts, pauses, ... a recording, and the state
\* the recording is in after each of them
VideoRecordingCommands ==
    {"zvStartVideoRecording", "zvPauseVideoRecording",
     "zvResumeVideoRecording", "zvFinishVideoRecording",
     "zvSaveVideoRecording", "zvDiscardVideoRecording"}

StateAfter(command) ==
    CASE command = "zvStartVideoRecording" -> "Recording"
      [] command = "zvPauseVideoRecording" -> "Paused"
      [] command = "zvResumeVideoRecording" -> "Recording"
      [] command = "zvFinishVideoRecording" -> "Finished"
      [] command = "zvSaveVideoRecording" -> "NotRecording"
      [] command = "zvDiscardVideoRecording" -> "NotRecording"

VideoRecordingCommand(w, c, command) ==
    Op([w EXCEPT !.vr[c] = StateAfter(command)], command, c, 0, "")

switchZviewVideoRecordingQuality(w, supported, quality) ==
    IF w.activeConn = NULL THEN w
    ELSE LET a  == w.activeConn
             w1 == Op(w, "zvDoesConnectionSupportCapability", a, 0,
                      IF supported THEN "supported" ELSE "notSupported")
             w2 == Op(w1, "zvGetSettingU32", a, 0, quality)
             new == CASE quality = "480P" -> "720P"
                      [] quality = "720P" -> "1080P"
                      [] quality = "1080P" -> "480P"
                      [] OTHER -> quality
         IN  IF ~supported THEN w1
             ELSE IF quality = "Other" THEN w2
             ELSE Op(w2, "zvSetSettingU32", a, 0, new)

\* the switch of processZviewVideoRecordingKeyPress: what the key does in
\* the state read, "none" if nothing
CommandFor_KeyOnly(key, videoRecordingState) ==
    CASE key = "Q" -> "quality"
      [] key = "R" -> "zvStartVideoRecording"
      [] key = "P" -> IF videoRecordingState = "Paused"
                      THEN "zvResumeVideoRecording"
                      ELSE "zvPauseVideoRecording"
      [] key = "F" -> "zvFinishVideoRecording"
      [] key = "S" -> "zvSaveVideoRecording"
      [] key = "D" -> "zvDiscardVideoRecording"

CommandFor(key, videoRecordingState) ==
    CASE key = "Q" /\ videoRecordingState = "NotRecording" -> "quality"
      [] key = "R" /\ videoRecordingState = "NotRecording" ->
             "zvStartVideoRecording"
      [] key = "P" /\ videoRecordingState = "Recording" ->
             "zvPauseVideoRecording"
      [] key = "P" /\ videoRecordingState = "Paused" ->
             "zvResumeVideoRecording"
      [] key = "F" /\ videoRecordingState \in {"Recording", "Paused"} ->
             "zvFinishVideoRecording"
      [] key = "S" /\ videoRecordingState = "Finished" ->
             "zvSaveVideoRecording"
      [] key = "D" /\ videoRecordingState = "Finished" ->
             "zvDiscardVideoRecording"
      [] OTHER -> "none"

processZviewVideoRecordingKeyPress(w, key, supported, quality) ==
    IF w.activeConn = NULL THEN w
    ELSE LET a  == w.activeConn
             videoRecordingState == w.vr[a]
             w1 == Op(w, "zvGetVideoRecordingState", a, 0,
                      videoRecordingState)
             command == CommandFor(key, videoRecordingState)
         IN  IF videoRecordingState = "NotAvailable" THEN w1
             ELSE IF command = "none" THEN w1
             ELSE IF command = "quality"
             THEN switchZviewVideoRecordingQuality(w1, supported, quality)
             ELSE VideoRecordingCommand(w1, a, command)

----------------------------------------------------------------------------
(* Connection state dispatch *)

\* zvUpdateConnection: refresh the snapshot that zvGetConnectionState and
\* zvGetConnectionMode read.  (The setup phase and its completion flag are
\* only read right after this call, in the same call of
\* updateZviewConnection, so their getters read the transport's record.)
zvUpdateConnection(w, c) ==
    IF w.failOp = "zvUpdateConnection"
    THEN Failed(w, "zvUpdateConnection", c)
    ELSE Op([w EXCEPT !.sstate[c] = w.cstate[c], !.smode[c] = w.cmode[c]],
            "zvUpdateConnection", c, 0, w.cstate[c])

\* (the log entry tells whether the connection had been accepted and how
\* many kinds of mode resources are live at the time of the call)
zvDestroyConnection(w, c) ==
    Op([w EXCEPT !.alive[c] = "destroyed"], "zvDestroyConnection", c,
       Cardinality({k \in Kinds : w.live[k] > 0}),
       IF w.accepted[c] THEN "accepted" ELSE "notAccepted")

\* the test that guards zvDestroyConnection in the Closed and Error cases
\* (the program destroys unconditionally)
ShouldDestroy_OnlyActive(w, c, wasActive) == wasActive

ShouldDestroy(w, c, wasActive) == TRUE

\* the body of "if (connection == g_zViewActiveConnection)" in the Closed and
\* Error cases
CloseActive_NoTearDown(w) ==
    zvSetNodeStatus([w EXCEPT !.activeConn = NULL],
                    ZVIEW_NODE_STATUS_NOT_CONNECTED)

CloseActive_ClearLast(w) ==
    LET w1 == zvSetNodeStatus(tearDownZviewMode(w),
                              ZVIEW_NODE_STATUS_NOT_CONNECTED)
    IN  IF w1.ok THEN [w1 EXCEPT !.activeConn = NULL] ELSE w1

CloseActive(w) ==
    zvSetNodeStatus(tearDownZviewMode([w EXCEPT !.activeConn = NULL]),
                    ZVIEW_NODE_STATUS_NOT_CONNECTED)

ClosedOrError(w, c) ==
    LET wasActive == (c = w.activeConn)
        w1 == IF wasActive THEN CloseActive(w) ELSE w
    IN  IF ~w1.ok THEN w1
        ELSE IF ShouldDestroy(w1, c, wasActive)
        THEN zvDestroyConnection(w1, c)
        ELSE w1

\* the condition under which updateZviewConnection goes on to
\* processZviewVideoRecording after the switch on the connection state
\* (the program does so in every state)
PollsRecording_OnlyModeActive(connectionState) ==
    connectionState = "ModeActive"

PollsRecording(connectionState) == TRUE

updateZviewConnection(w, c, outcome) ==
    LET w0 == zvUpdateConnection(w, c)
        st == w0.sstate[c]
        w1 == CASE st = "AwaitingAcceptance" -> processNewZviewConnection(w0, c)
                [] st = "NoMode" -> tearDownZviewMode(w0)
                [] st = "ModeSetup" -> setUpZviewMode(w0, c)
                [] st \in {"Closed", "Error"} -> ClosedOrError(w0, c)
                [] OTHER -> w0
    IN  IF ~w0.ok THEN w0
        ELSE IF ~w1.ok THEN w1
        ELSE IF PollsRecording(st)
        THEN processZviewVideoRecording(w1, c, outcome)
        ELSE w1

----------------------------------------------------------------------------
(* Projection matrix of augmented reality mode.  A float is an exact       *)
(* fraction <<numerator, denominator>> in lowest terms with a positive     *)
(* denominator (rounding is not modelled).  A glm::mat4 is column-major:   *)
(* m[c][r] is the entry in column c and row r.                             *)

RECURSIVE GCD(_, _)
GCD(a, b) == IF b = 0 THEN a ELSE GCD(b, a % b)

Abs(n) == IF n < 0 THEN -n ELSE n

Rat(n, d) ==
    LET g == GCD(Abs(n), Abs(d))
        sgn == IF d < 0 THEN -1 ELSE 1
    IN  <<sgn * (n \div g), sgn * (d \div g)>>

Q(n) == <<n, 1>>
RAdd(a, b) == Rat(a[1] * b[2] + b[1] * a[2], a[2] * b[2])
RNeg(a) == <<-a[1], a[2]>>
RSub(a, b) == RAdd(a, RNeg(b))
RMul(a, b) == Rat(a[1] * b[1], a[2] * b[2])
RDiv(a, b) == Rat(a[1] * b[2], a[2] * b[1])

\* the clip planes 0.1f and 100.0f of the call in drawZview
NearClip == <<1, 10>>
FarClip == <<100, 1>>

\* glm::mat4(x0, ..., x15): the sixteen values fill the matrix row by row
\* of the text, which is column by column of the matrix
Mat4_RowMajor(x) == [c \in 1..4 |-> [r \in 1..4 |-> x[4 * (r - 1) + c]]]

Mat4(x) == [c \in 1..4 |-> [r \in 1..4 |-> x[4 * (c - 1) + r]]]

\* glm::ortho(left, right, bottom, top, zNear, zFar)
ortho(left, right, bottom, top, zNear, zFar) ==
    Mat4(<<RDiv(Q(2), RSub(right, left)), Q(0), Q(0), Q(0),
           Q(0), RDiv(Q(2), RSub(top, bottom)), Q(0), Q(0),
           Q(0), Q(0), RNeg(RDiv(Q(2), RSub(zFar, zNear))), Q(0),
           RNeg(RDiv(RAdd(right, left), RSub(right, left))),
           RNeg(RDiv(RAdd(top, bottom), RSub(top, bottom))),
           RNeg(RDiv(RAdd(zFar, zNear), RSub(zFar, zNear))),
           Q(1)>>)

\* glm's operator* on two mat4
MatMul(A, B) ==
    [c \in 1..4 |-> [r \in 1..4 |->
        RAdd(RAdd(RMul(A[1][r], B[c][1]), RMul(A[2][r], B[c][2])),
             RAdd(RMul(A[3][r], B[c][3]), RMul(A[4][r], B[c][4])))]]

computeZviewAugmentedRealityModeProjectionMatrix(focalLength, principalPointOffsetX, principalPointOffsetY, pixelAspectRatio, axisSkew, imageWidth, imageHeight, nearClip, farClip) ==
    LET fX == focalLength
        fY == RMul(focalLength, pixelAspectRatio)
        cX == principalPointOffsetX
        cY == principalPointOffsetY
        s == axisSkew
        a == RAdd(nearClip, farClip)
        b == RMul(nearClip, farClip)
        cameraPerspectiveProjectionMatrix ==
            Mat4(<<fX, Q(0), Q(0), Q(0),
                   RNeg(s), RNeg(fY), Q(0), Q(0),
                   RNeg(cX), RNeg(cY), a, Q(-1),
                   Q(0), Q(0), b, Q(0)>>)
        ndcConversionMatrix ==
            ortho(Q(0), imageWidth, imageHeight, Q(0), nearClip, farClip)
    IN  MatMul(ndcConversionMatrix, cameraPerspectiveProjectionMatrix)

\* the five intrinsics of a received frame, as the record
\* [focalLength, offsetX, offsetY, pixelAspectRatio, axisSkew]
DefaultIntrinsics ==
    [focalLength |-> Q(1), offsetX |-> Q(0), offsetY |-> Q(0),
     pixelAspectRatio |-> Q(1), axisSkew |-> Q(0)]

\* stands for "no assignment to g_zViewAugmentedRealityModeCameraProjection"
NoProjection ==
    [intrinsics |-> DefaultIntrinsics, imageWidth |-> 0, imageHeight |-> 0,
     nearClip |-> Q(0), farClip |-> Q(0),
     matrix |-> Mat4(<<Q(1), Q(0), Q(0), Q(0), Q(0), Q(1), Q(0), Q(0),
                       Q(0), Q(0), Q(1), Q(0), Q(0), Q(0), Q(0), Q(1)>>)]

\* the assignment to g_zViewAugmentedRealityModeCameraProjection in
\* drawZview: the matrix, kept together with the arguments of the call
ProjectionFor(w) ==
    [intrinsics |-> w.intrinsics,
     imageWidth |-> w.arW, imageHeight |-> w.arH,
     nearClip |-> NearClip, farClip |-> FarClip,
     matrix |-> computeZviewAugmentedRealityModeProjectionMatrix(
                    w.intrinsics.focalLength, w.intrinsics.offsetX,
                    w.intrinsics.offsetY, w.intrinsics.pixelAspectRatio,
                    w.intrinsics.axisSkew, Q(w.arW), Q(w.arH),
                    NearClip, FarClip)]

----------------------------------------------------------------------------
(* Mask geometry of augmented reality mode (the end of                     *)
(* updateZviewAugmentedRealityMode).  Lengths are whole numbers of half    *)
(* metres, so that the half of a whole number of metres is exact; a        *)
(* glm::vec3 is <<x, y, z>>.                                               *)

Meters(n) == 2 * n

\* "* 0.5f"
Half_Whole(x) == x

Half(x) == x \div 2

\* the 32 vertices copied into the mask vertex buffer, for the viewport size
\* <<width, height>>
maskGeometryVerts(viewportSizeMeters) ==
    LET side == Meters(ZVIEW_AUGMENTED_REALITY_MODE_MASK_CUBE_SIDE_LENGTH_METERS)
        vx == Half(viewportSizeMeters[1])
        vy == Half(viewportSizeMeters[2])
        mx == Half(side)
        my == Half(side)
        viewportCornerTL == <<-vx, vy, 0>>
        viewportCornerTR == <<vx, vy, 0>>
        viewportCornerBL == <<-vx, -vy, 0>>
        viewportCornerBR == <<vx, -vy, 0>>
        screenPlaneMaskCubeFaceSplitT == <<-vx, my, 0>>
        screenPlaneMaskCubeFaceSplitB == <<vx, -my, 0>>
        screenPlaneMaskCubeFaceSplitL == <<-mx, -vy, 0>>
        screenPlaneMaskCubeFaceSplitR == <<mx, vy, 0>>
        screenPlaneMaskCubeFaceTL == <<-mx, my, 0>>
        screenPlaneMaskCubeFaceTR == <<mx, my, 0>>
        screenPlaneMaskCubeFaceBL == <<-mx, -my, 0>>
        screenPlaneMaskCubeFaceBR == <<mx, -my, 0>>
        backMaskCubeFaceTL == <<-mx, my, side>>
        backMaskCubeFaceTR == <<mx, my, side>>
        backMaskCubeFaceBL == <<-mx, -my, side>>
        backMaskCubeFaceBR == <<mx, -my, side>>
    IN  << \* top-left, top-right, bottom-left, bottom-right screen quads
           screenPlaneMaskCubeFaceTL, screenPlaneMaskCubeFaceSplitL,
           viewportCornerBL, screenPlaneMaskCubeFaceSplitT,
           screenPlaneMaskCubeFaceSplitT, viewportCornerTL,
           screenPlaneMaskCubeFaceSplitR, screenPlaneMaskCubeFaceTR,
           screenPlaneMaskCubeFaceSplitL, screenPlaneMaskCubeFaceBL,
           screenPlaneMaskCubeFaceSplitB, viewportCornerBR,
           viewportCornerTR, screenPlaneMaskCubeFaceSplitB,
           screenPlaneMaskCubeFaceBR, screenPlaneMaskCubeFaceSplitR,
           \* top, bottom, left, right cube face quads
           backMaskCubeFaceTL, screenPlaneMaskCubeFaceTL,
           screenPlaneMaskCubeFaceTR, backMaskCubeFaceTR,
           backMaskCubeFaceBR, screenPlaneMaskCubeFaceBR,
           screenPlaneMaskCubeFaceBL, backMaskCubeFaceBL,
           backMaskCubeFaceBL, screenPlaneMaskCubeFaceBL,
           screenPlaneMaskCubeFaceTL, backMaskCubeFaceTL,
           backMaskCubeFaceTR, screenPlaneMaskCubeFaceTR,
           screenPlaneMaskCubeFaceBR, backMaskCubeFaceBR >>

\* the mask vertex buffer before the first glBufferSubData
NoMask == [viewportSizeMeters |-> <<0, 0>>, verts |-> <<>>]

----------------------------------------------------------------------------
(* Frame pump *)

handleZviewStandardModeImageResolutionChange_Always(w) ==
    IF w.activeConn = NULL THEN w
    ELSE LET w1 == WriteImageResolution(w, w.activeConn, w.winW, w.winH)
         IN  [w1 EXCEPT !.stdW = w1.winW, !.stdH = w1.winH]

handleZviewStandardModeImageResolutionChange(w) ==
    IF w.activeConn = NULL THEN w
    ELSE IF w.stdW = w.winW /\ w.stdH = w.winH THEN w
    ELSE LET w1 == WriteImageResolution(w, w.activeConn, w.winW, w.winH)
         IN  IF ~w1.ok THEN w1
             ELSE [w1 EXCEPT !.stdW = w1.winW, !.stdH = w1.winH]

\* the value handed to zvSetFrameDataU64 in standard mode
StdFrameTag(w) == w.frameNumber

\* "++g_zViewStandardModeFrameNumber" after a frame was sent
NextFrameNumber_Stuck(n) == n

NextFrameNumber(n) == n + 1

\* the path "if (frame == NULL) return true" of standard mode
StdSkip_Counting(w) == [w EXCEPT !.frameNumber = @ + 1]

StdSkip(w) == w

\* the value handed to zvSetFrameDataU64 in augmented reality mode
ArFrameTag_Counter(w, receivedFrameNumber) == w.frameNumber

ArFrameTag(w, receivedFrameNumber) == receivedFrameNumber

drawZviewStandardFrame(w, slot) ==
    LET a  == w.activeConn
        w1 == Call(w, "zvGetNextFrameToSend", a,
                   IF slot THEN 1 ELSE 0, StandardMode)
    IN  IF ~w1.ok THEN w1
        ELSE IF ~slot THEN StdSkip(w1)
        ELSE LET tag == StdFrameTag(w1)
                 w2 == Call(w1, "zvSetFrameDataU64", a, tag, StandardMode)
                 w3 == IF w2.ok
                       THEN Op(w2, "drawZviewStandardMode", a, 0, StandardMode)
                       ELSE w2
                 w4 == Call(w3, "zvGetFrameBuffer", a, 0, StandardMode)
                 w5 == Call(w4, "zvSendFrame", a, tag, StandardMode)
                 w6 == [w5 EXCEPT !.frameNumber = NextFrameNumber(@)]
             IN  IF ~w5.ok THEN w5
                 ELSE handleZviewStandardModeImageResolutionChange(w6)

\* updateZviewAugmentedRealityMode: the camera transform, then the display
\* queries of the tracking library (each with CHECK_ZC_ERROR), then the mask
\* transform and the mask geometry.  The log entry stands for the
\* assignment of the mask transform.
updateZviewAugmentedRealityMode(w) ==
    IF w.failOp = "zcGetDisplay"
    THEN Failed(w, "zcGetDisplay", w.activeConn)
    ELSE Op(w, "updateZviewAugmentedRealityMode", w.activeConn, 0,
            AugmentedRealityMode)

\* the path "if (receivedFrame == NULL) return true" of augmented reality
\* mode
ArSkip_Recompute(w) ==
    [updateZviewAugmentedRealityMode(w) EXCEPT !.ok = TRUE]

ArSkip(w) == w

drawZviewAugmentedRealityFrame_RenderFirst(w, slot, recv) ==
    LET a  == w.activeConn
        w1 == Call(w, "zvReceiveFrame", a, recv, AugmentedRealityMode)
    IN  IF ~w1.ok \/ recv = NoFrame THEN w1
        ELSE
        LET w2 == Call(w1, "zvGetFrameData", a, recv, AugmentedRealityMode)
            w3 == Call(w2, "zvReleaseReceivedFrame", a, recv,
                       AugmentedRealityMode)
            w4 == Op([w3 EXCEPT !.projection = ProjectionFor(w3)],
                     "computeZviewAugmentedRealityModeProjectionMatrix",
                     a, 0, AugmentedRealityMode)
            w5 == [updateZviewAugmentedRealityMode(w4) EXCEPT !.ok = TRUE]
            w6 == Op(w5, "drawZviewAugmentedRealityMode", a, 0,
                     AugmentedRealityMode)
            w7 == Call(w6, "zvGetNextFrameToSend", a,
                       IF slot THEN 1 ELSE 0, AugmentedRealityMode)
        IN  IF ~w3.ok THEN w3
            ELSE IF ~w7.ok \/ ~slot THEN w7
            ELSE Call(Call(Call(w7, "zvSetFrameDataU64", a, recv,
                                AugmentedRealityMode),
                           "zvGetFrameBuffer", a, 0, AugmentedRealityMode),
                      "zvSendFrame", a, recv, AugmentedRealityMode)

drawZviewAugmentedRealityFrame(w, slot, recv) ==
    LET a  == w.activeConn
        w1 == Call(w, "zvReceiveFrame", a, recv, AugmentedRealityMode)
    IN  IF ~w1.ok THEN w1
        ELSE IF recv = NoFrame THEN ArSkip(w1)
        ELSE
        LET receivedFrameNumber == recv
            w2 == Call(w1, "zvGetFrameData", a, recv, AugmentedRealityMode)
            w3 == Call(w2, "zvReleaseReceivedFrame", a, recv,
                       AugmentedRealityMode)
            w4 == IF w3.ok
                  THEN Op([w3 EXCEPT !.projection = ProjectionFor(w3)],
                          "computeZviewAugmentedRealityModeProjectionMatrix",
                          a, 0, AugmentedRealityMode)
                  ELSE w3
            \* "updateZviewAugmentedRealityMode();": the result is dropped
            w5 == IF w4.ok
                  THEN [updateZviewAugmentedRealityMode(w4) EXCEPT !.ok = TRUE]
                  ELSE w4
            w6 == Call(w5, "zvGetNextFrameToSend", a,
                       IF slot THEN 1 ELSE 0, AugmentedRealityMode)
        IN  IF ~w6.ok \/ ~slot THEN w6
            ELSE LET tag == ArFrameTag(w6, receivedFrameNumber)
                     w7 == Call(w6, "zvSetFrameDataU64", a, tag,
                                AugmentedRealityMode)
                     w8 == IF w7.ok
                           THEN Op(w7, "drawZviewAugmentedRealityMode", a, 0,
                                   AugmentedRealityMode)
                           ELSE w7
                     w9 == Call(w8, "zvGetFrameBuffer", a, 0,
                                AugmentedRealityMode)
                 IN  Call(w9, "zvSendFrame", a, tag, AugmentedRealityMode)

\* drawZview is about to work on a standard mode frame
StandardFrameDue(w) ==
    /\ w.activeConn # NULL
    /\ w.sstate[w.activeConn] = "ModeActive"
    /\ w.smode[w.activeConn] = StandardMode

\* the test "connectionState != ZV_CONNECTION_STATE_MODE_ACTIVE" that ends
\* drawZview before any frame work
NotModeActive_Never(connectionState) == FALSE

NotModeActive(connectionState) == connectionState # "ModeActive"

drawZview(w, slot, recv) ==
    IF w.activeConn = NULL THEN w
    ELSE
    LET w1 == Query(w, "zvGetConnectionState", w.activeConn)
        w2 == Query(w1, "zvGetConnectionMode", w.activeConn)
    IN  IF ~w1.ok THEN w1
        ELSE IF NotModeActive(w1.sstate[w1.activeConn]) THEN w1
        ELSE IF ~w2.ok THEN w2
        ELSE IF w2.smode[w2.activeConn] = StandardMode
             THEN drawZviewStandardFrame(w2, slot)
             ELSE IF w2.smode[w2.activeConn] = AugmentedRealityMode
                  THEN drawZviewAugmentedRealityFrame(w2, slot, recv)
                  ELSE w2

----------------------------------------------------------------------------
(* Commands of the host input layer *)

zvSetConnectionMode(w, c, m) ==
    Op([w EXCEPT !.cstate[c] = "SwitchingModes", !.cmode[c] = m],
       "zvSetConnectionMode", c, 0, m)

\* the availability zvGetConnectionSupportedMode reports for the mode at
\* (0-based) index: avail[i] tells whether the mode at index i - 1 is
\* available
Availability(avail, index) ==
    IF avail[index + 1] THEN "Available" ELSE "NotAvailable"

\* the test "curSupportedMode.availability == ZV_MODE_AVAILABILITY_AVAILABLE"
IsAvailable_Always(availability) == TRUE

IsAvailable(availability) == availability = "Available"

\* the test of the while loop of switchZviewMode
LoopContinues_Inclusive(numModesTried, numSupportedModes) ==
    numModesTried <= numSupportedModes

LoopContinues(numModesTried, numSupportedModes) ==
    numModesTried < numSupportedModes

\* the while loop of switchZviewMode over the n supported modes ("%=" with
\* a zero divisor ends the program)
RECURSIVE SwitchLoop(_, _, _, _)
SwitchLoop(w, n, avail, numModesTried) ==
    IF ~LoopContinues(numModesTried, n) THEN w
    ELSE IF n = 0
    THEN [Op(w, "moduloByZero", w.activeConn, w.modeIndex + 1, "")
             EXCEPT !.ok = FALSE, !.halt = TRUE]
    ELSE LET index == (w.modeIndex + 1) % n
             w1 == Op([w EXCEPT !.modeIndex = index],
                      "zvGetConnectionSupportedMode", w.activeConn, index,
                      Availability(avail, index))
         IN  IF IsAvailable(Availability(avail, index))
             THEN zvSetConnectionMode(w1, w1.activeConn,
                                      SupportedModes[index + 1])
             ELSE SwitchLoop(w1, n, avail, numModesTried + 1)

switchZviewMode(w, n, avail) ==
    IF w.activeConn = NULL THEN w
    ELSE IF w.sstate[w.activeConn] \notin {"NoMode", "ModeActive"} THEN w
    ELSE SwitchLoop(Op(w, "zvGetNumConnectionSupportedModes", w.activeConn,
                       n, ""),
                    n, avail, 0)

pauseResumeZviewMode_PauseUnlessPaused(w) ==
    IF w.activeConn = NULL THEN w
    ELSE LET a == w.activeConn
         IN  IF w.sstate[a] = "ModePaused"
             THEN Op([w EXCEPT !.cstate[a] =
                          IF @ = "ModePaused" THEN "ModeResuming" ELSE @],
                     "zvResumeMode", a, 0, "")
             ELSE Op([w EXCEPT !.cstate[a] =
                          IF @ = "ModeActive" THEN "ModePaused" ELSE @],
                     "zvPauseMode", a, 0, "")

pauseResumeZviewMode(w) ==
    IF w.activeConn = NULL THEN w
    ELSE LET a == w.activeConn
         IN  IF w.sstate[a] = "ModeActive"
             THEN Op([w EXCEPT !.cstate[a] =
                          IF @ = "ModeActive" THEN "ModePaused" ELSE @],
                     "zvPauseMode", a, 0, "")
             ELSE IF w.sstate[a] = "ModePaused"
             THEN Op([w EXCEPT !.cstate[a] =
                          IF @ = "ModePaused" THEN "ModeResuming" ELSE @],
                     "zvResumeMode", a, 0, "")
             ELSE w

closeZviewConnectionAndExitViewer(w) ==
    IF w.activeConn = NULL THEN w
    ELSE zvCloseConnection(w, w.activeConn, "user")

----------------------------------------------------------------------------
(* Overlay settings: incrementZviewSettingClampedF32.  A ZSFloat is a      *)
(* record: nan tells whether it is a NaN, n is its value on the grid of    *)
(* the increments (rounding is not modelled).  Every comparison with a NaN *)
(* is false and every sum with a NaN is a NaN, as for the C++ operators.   *)

F32(n) == [nan |-> FALSE, n |-> n]

NaN == [nan |-> TRUE, n |-> 0]

\* "a += b"
AddF32(a, b) == IF a.nan \/ b.nan THEN NaN ELSE F32(a.n + b.n)

\* "a < b"
LessF32(a, b) == ~a.nan /\ ~b.nan /\ a.n < b.n

\* the if / else if that follows the addition
ClampF32_NoUpper(v, min, max) ==
    IF LessF32(v, min) THEN min ELSE v

ClampF32(v, min, max) ==
    IF LessF32(v, min) THEN min
    ELSE IF LessF32(max, v) THEN max
    ELSE v

\* s is the settings entry [value, before, increment, min, max]: value is
\* what zvGetSettingF32 reads and zvSetSettingF32 writes; the other fields
\* remember the value read and the arguments of the call
incrementZviewSettingClampedF32(s, increment, min, max) ==
    LET settingValue == s.value
    IN  [value |-> ClampF32(AddF32(settingValue, increment), min, max),
         before |-> settingValue,
         increment |-> increment, min |-> min, max |-> max]

----------------------------------------------------------------------------
(* State *)

VARIABLES
    \* program globals
    activeConn,     \* g_zViewActiveConnection
    latestMode,     \* g_zViewLatestActiveConnectionMode
    modeIndex,      \* g_zViewCurrentConnectionModeIndex
    vrLatest,       \* g_zViewVideoRecordingLatestState
    stdW, stdH,     \* g_zViewStandardModeImageWidth / Height
    frameNumber,    \* g_zViewStandardModeFrameNumber
    hnd,            \* the mode resource handle variables (NULL or set)
    live,           \* number of live objects behind each handle variable
    texW, texH,     \* size the standard mode render target was created with
    arW, arH,       \* g_zViewAugmentedRealityModeImageWidth / Height
    nodeStatus,     \* status string last handed to zvSetNodeStatus
    winW, winH,     \* g_windowWidth / g_windowHeight
    \* transport, per connection handle
    alive,          \* "unborn", "live" or "destroyed"
    cstate,         \* connection state
    cmode,          \* connection mode
    phase,          \* mode setup phase
    localDone,      \* this side completed the current phase
    accepted,       \* zvAcceptConnection was called
    closeReq,       \* reason of the local zvCloseConnection, or "none"
    setW, setH,     \* image width / height settings as the remote side sees them
    batchOpen, stagedW, stagedH,
    vr,             \* video recording state
    sstate,         \* state snapshot taken by zvUpdateConnection
    smode,          \* mode snapshot taken by zvUpdateConnection
    \* main loop
    pc,             \* "msg", "list", "conn", "draw" or "halted"
    idx,            \* loop variable i of updateZview
    connList,       \* connection list snapshot of zvUpdateConnectionList
    \* observation
    step,           \* the kind of the step that led to this state
    ops,            \* calls issued by that step, in order
    seen,           \* settings pairs the remote side could read during it
    hist,           \* history of frames and of setup / teardown runs
    \* overlay settings
    overlay,        \* an F32 overlay setting and the last increment call on it
    \* augmented reality rendering
    projection,     \* what that step assigned to
                    \* g_zViewAugmentedRealityModeCameraProjection
    mask            \* contents of the mask vertex buffer and the viewport
                    \* size they were computed for

progVars == <<activeConn, latestMode, modeIndex, vrLatest, stdW, stdH,
              frameNumber, hnd, live, texW, texH, arW, arH, nodeStatus,
              winW, winH>>
netVars == <<alive, cstate, cmode, phase, localDone, accepted, closeReq,
             setW, setH, batchOpen, stagedW, stagedH, vr,
             sstate, smode>>
loopVars == <<pc, idx, connList>>
vars == <<progVars, netVars, loopVars, step, ops, seen, hist, overlay,
          projection, mask>>

\* the current state as the record the handlers work on
World ==
    [activeConn |-> activeConn, latestMode |-> latestMode,
     modeIndex |-> modeIndex, vrLatest |-> vrLatest,
     stdW |-> stdW, stdH |-> stdH, frameNumber |-> frameNumber,
     hnd |-> hnd, live |-> live, texW |-> texW, texH |-> texH,
     arW |-> arW, arH |-> arH, nodeStatus |-> nodeStatus,
     winW |-> winW, winH |-> winH,
     alive |-> alive, cstate |-> cstate, cmode |-> cmode, phase |-> phase,
     localDone |-> localDone, accepted |-> accepted, closeReq |-> closeReq,
     setW |-> setW, setH |-> setH, batchOpen |-> batchOpen,
     stagedW |-> stagedW, stagedH |-> stagedH, vr |-> vr,
     sstate |-> sstate, smode |-> smode,
     ops |-> <<>>, seen |-> <<>>, ok |-> TRUE, halt |-> FALSE,
     failOp |-> "none",
     projection |-> NoProjection, intrinsics |-> DefaultIntrinsics]

HasOp(o, name) == \E i \in DOMAIN o : o[i].op = name

\* log entries that are not calls of the transport
LocalOps ==
    {"release", "alloc", "tearDownZviewMode", "setUpZviewStandardMode",
     "setUpZviewAugmentedRealityMode", "logError", "logTransition",
     "drawZviewStandardMode", "drawZviewAugmentedRealityMode",
     "computeZviewAugmentedRealityModeProjectionMatrix",
     "updateZviewAugmentedRealityMode"}

\* calls of the tracking library that can fail
ZcCalls == {"zcGetDisplay", "zcDestroyViewport"}

\* the log entry r is a call of the transport, failed or not
TransportOp(r) ==
    /\ r.op \notin LocalOps
    /\ r.op = "failed" => r.k \notin ZcCalls

\* the connections a call of the transport failed for, according to log o
FailedConns(o) ==
    {o[i].c : i \in {j \in DOMAIN o : o[j].op = "failed"
                                        /\ o[j].k \notin ZcCalls}}

\* log o holds a call of the given name that handed out a frame, and no
\* call of the name that gives the frame back
Kept(o, taken, givenBack) ==
    /\ \E i \in DOMAIN o : /\ o[i].op = taken
                            /\ IF taken = "zvReceiveFrame"
                               THEN o[i].v # NoFrame ELSE o[i].v = 1
    /\ ~HasOp(o, givenBack)

Min(a, b) == IF a < b THEN a ELSE b

\* History after a step of the given kind that issued the calls w.ops and
\* started with frame counter fn.
\*   stdLast  last tag sent since the active session was last seen to enter
\*            standard mode
\*   suLast   last tag sent since the last setUpZviewStandardMode
\*   tdRun    0: no teardown released anything since the last mode setup;
\*            1: the last call of tearDownZviewMode released resources and
\*            no mode setup ran since; 2: tearDownZviewMode was called again
\*            after that one, still with no mode setup in between
\*   skipRun  consecutive standard mode ticks without a frame slot (capped)
\*   pending  frame counter when that run of skipped ticks began
\*   resumed  right after a send: the length of the run of skips it ended
\*   switched the mode the last switchZviewMode asked for, until the next
\*            mode setup tick of the active session ("none" otherwise)
\*   faults   number of calls that have failed
\*   failed   the connections a transport call failed for in this tick
\*   unreleased  an earlier tick of the active session received a frame and
\*            did not release it
\*   unsent   an earlier tick of the active session got a frame to send and
\*            did not send it
\*   vrSeen   per live connection, the video recording state its last
\*            zvGetVideoRecordingState returned (before the first one, and
\*            for a connection that is not live, the state of a connection
\*            without recording)
HistAfter(w, kind, fn) ==
    LET o == w.ops
        hasTD == HasOp(o, "tearDownZviewMode")
        hasSU == HasOp(o, "setUpZviewStandardMode")
                 \/ HasOp(o, "setUpZviewAugmentedRealityMode")
        hasRel == HasOp(o, "release")
        stdSends == {i \in DOMAIN o : o[i].op = "zvSendFrame"
                                       /\ o[i].k = StandardMode}
        stdSkips == {i \in DOMAIN o : o[i].op = "zvGetNextFrameToSend"
                                       /\ o[i].k = StandardMode
                                       /\ o[i].v = 0}
        inStd == w.activeConn # NULL /\ w.smode[w.activeConn] = StandardMode
        tag == o[CHOOSE i \in stdSends : TRUE].v
        sent == stdSends # {}
        h1 == [hist EXCEPT
                 !.stdLast = IF sent THEN tag
                             ELSE IF inStd THEN @ ELSE -1,
                 !.suLast = IF sent THEN tag
                            ELSE IF inStd
                                    /\ ~HasOp(o, "setUpZviewStandardMode")
                                 THEN @ ELSE -1,
                 !.tdRun = IF hasSU THEN 0
                           ELSE IF hasTD /\ @ > 0 THEN 2
                           ELSE IF hasTD /\ hasRel THEN 1
                           ELSE @,
                 !.resumed = 0,
                 !.switched =
                     IF HasOp(o, "zvSetConnectionMode")
                     THEN o[CHOOSE i \in DOMAIN o :
                                o[i].op = "zvSetConnectionMode"].k
                     ELSE IF w.activeConn = NULL
                             \/ \E i \in DOMAIN o :
                                    /\ o[i].op = "zvUpdateConnection"
                                    /\ o[i].k = "ModeSetup"
                     THEN "none"
                     ELSE @,
                 !.faults = IF HasOp(o, "failed") THEN @ + 1 ELSE @,
                 !.failed = IF kind = "msg" THEN FailedConns(o)
                            ELSE @ \cup FailedConns(o),
                 !.unreleased =
                     IF w.activeConn = NULL THEN FALSE
                     ELSE @ \/ Kept(o, "zvReceiveFrame",
                                    "zvReleaseReceivedFrame"),
                 !.unsent =
                     IF w.activeConn = NULL THEN FALSE
                     ELSE @ \/ Kept(o, "zvGetNextFrameToSend", "zvSendFrame"),
                 !.vrSeen =
                     [c \in Conns |->
                        LET polls == {i \in DOMAIN o :
                                        /\ o[i].op = "zvGetVideoRecordingState"
                                        /\ o[i].c = c}
                        IN  IF w.alive[c] # "live" THEN "NotAvailable"
                            ELSE IF polls # {}
                            THEN o[CHOOSE i \in polls : TRUE].k
                            ELSE @[c]]]
    IN  IF kind # "draw" THEN h1
        ELSE IF sent
        THEN [h1 EXCEPT !.resumed = hist.skipRun,
                        !.skipRun = 0, !.pending = -1]
        ELSE IF stdSkips # {}
        THEN [h1 EXCEPT !.skipRun = Min(@ + 1, MaxSkips),
                        !.pending = IF hist.skipRun = 0 THEN fn ELSE @]
        ELSE [h1 EXCEPT !.skipRun = 0, !.pending = -1]

\* the transport frees the record of a destroyed connection; its handle
\* value may be handed out again
Reclaim(w) ==
    LET d == {c \in Conns : w.alive[c] = "destroyed"}
        F(f, v) == [c \in Conns |-> IF c \in d THEN v ELSE f[c]]
    IN  [w EXCEPT !.alive = F(@, "unborn"),
                  !.cstate = F(@, "Initialization"),
                  !.cmode = F(@, NullMode),
                  !.phase = F(@, "Initialization"),
                  !.localDone = F(@, FALSE),
                  !.accepted = F(@, FALSE),
                  !.closeReq = F(@, "none"),
                  !.setW = F(@, 0), !.setH = F(@, 0),
                  !.vr = F(@, "NotAvailable"),
                  !.sstate = F(@, "Initialization"),
                  !.smode = F(@, NullMode)]

\* make w the next state
Commit(w0, kind) ==
    \E w \in {w0} :
        /\ activeConn' = w.activeConn /\ latestMode' = w.latestMode
        /\ modeIndex' = w.modeIndex /\ vrLatest' = w.vrLatest
        /\ stdW' = w.stdW /\ stdH' = w.stdH /\ frameNumber' = w.frameNumber
        /\ hnd' = w.hnd /\ live' = w.live /\ texW' = w.texW /\ texH' = w.texH
        /\ arW' = w.arW /\ arH' = w.arH /\ nodeStatus' = w.nodeStatus
        /\ winW' = w.winW /\ winH' = w.winH
        /\ alive' = w.alive /\ cstate' = w.cstate /\ cmode' = w.cmode
        /\ phase' = w.phase /\ localDone' = w.localDone
        /\ accepted' = w.accepted /\ closeReq' = w.closeReq
        /\ setW' = w.setW /\ setH' = w.setH /\ batchOpen' = w.batchOpen
        /\ stagedW' = w.stagedW /\ stagedH' = w.stagedH /\ vr' = w.vr
        /\ sstate' = w.sstate /\ smode' = w.smode
        /\ step' = kind /\ ops' = w.ops /\ seen' = w.seen
        /\ hist' = HistAfter(w, kind, frameNumber)
        /\ projection' = w.projection
        /\ UNCHANGED <<overlay, mask>>

\* the overlay setting before any increment call
OverlayIdle(v) ==
    [value |-> v, before |-> v, increment |-> F32(0),
     min |-> F32(0), max |-> F32(0)]

InitProgram ==
    /\ activeConn = NULL /\ latestMode = NullMode /\ modeIndex = 0
    /\ vrLatest = "NotAvailable"
    /\ stdW = 0 /\ stdH = 0 /\ frameNumber = 0
    /\ hnd = [k \in Kinds |-> NULL] /\ live = [k \in Kinds |-> 0]
    /\ texW = 0 /\ texH = 0 /\ arW = 0 /\ arH = 0
    /\ nodeStatus = ZVIEW_NODE_STATUS_NOT_CONNECTED
    /\ winW = WindowWidthInit /\ winH = WindowHeightInit
    /\ alive = [c \in Conns |-> "unborn"]
    /\ cstate = [c \in Conns |-> "Initialization"]
    /\ cmode = [c \in Conns |-> NullMode]
    /\ phase = [c \in Conns |-> "Initialization"]
    /\ localDone = [c \in Conns |-> FALSE]
    /\ accepted = [c \in Conns |-> FALSE]
    /\ closeReq = [c \in Conns |-> "none"]
    /\ setW = [c \in Conns |-> 0] /\ setH = [c \in Conns |-> 0]
    /\ batchOpen = [c \in Conns |-> FALSE]
    /\ stagedW = [c \in Conns |-> NULL] /\ stagedH = [c \in Conns |-> NULL]
    /\ vr = [c \in Conns |-> "NotAvailable"]
    /\ sstate = [c \in Conns |-> "Initialization"]
    /\ smode = [c \in Conns |-> NullMode]
    /\ pc = "msg" /\ idx = 0 /\ connList = <<>>
    /\ step = "init" /\ ops = <<>> /\ seen = <<>>
    /\ hist = [stdLast |-> -1, suLast |-> -1, tdRun |-> 0,
               skipRun |-> 0, pending |-> -1, resumed |-> 0,
               switched |-> "none", faults |-> 0, failed |-> {},
               unreleased |-> FALSE, unsent |-> FALSE,
               vrSeen |-> [c \in Conns |-> "NotAvailable"]]
    /\ projection = NoProjection

Init == InitProgram /\ overlay = OverlayIdle(F32(0)) /\ mask = NoMask

----------------------------------------------------------------------------
(* The transport and the remote side.  The program sees the transport only *)
(* in the reports it polls, and it polls much faster than the transport    *)
(* changes state: each poll of a connection reports its record unchanged   *)
(* or one step further.  The states and their order are the ones the cases *)
(* of updateZviewConnection describe.                                      *)

\* the records of connection c the next zvUpdateConnection can report
EnvReports(w, c) ==
    LET st == w.cstate[c]
        open == st \notin {"Closed", "Error"}
        R(cond, w1) == IF cond THEN {w1} ELSE {}
    IN  {w}
        \cup R(st = "Initialization",
               [w EXCEPT !.cstate[c] = "AwaitingAcceptance"])
        \cup R(st = "AwaitingAcceptance" /\ w.accepted[c],
               [w EXCEPT !.cstate[c] = "NoMode"])
        \cup R(open, [w EXCEPT !.cstate[c] = "Closed"])
        \cup R(open, [w EXCEPT !.cstate[c] = "Error"])
        \cup (IF w.accepted[c] /\ st \in {"NoMode", "ModeActive"}
              THEN {[w EXCEPT !.cstate[c] = "SwitchingModes", !.cmode[c] = m] :
                        m \in (Modes \cup {NullMode}) \ {w.cmode[c]}}
              ELSE {})
        \cup R(st = "SwitchingModes",
               [w EXCEPT !.cstate[c] = IF w.cmode[c] = NullMode
                                       THEN "NoMode" ELSE "ModeSetup",
                         !.phase[c] = "Initialization",
                         !.localDone[c] = FALSE])
        \cup (IF st = "ModeSetup" /\ w.localDone[c]
              THEN IF w.phase[c] = "Initialization"
                   THEN IF w.cmode[c] = AugmentedRealityMode
                        THEN {[w EXCEPT !.phase[c] = "Completion",
                                        !.localDone[c] = FALSE,
                                        !.setW[c] = r[1], !.setH[c] = r[2]] :
                                  r \in ArResolutions}
                        ELSE {[w EXCEPT !.phase[c] = "Completion",
                                        !.localDone[c] = FALSE]}
                   ELSE {[w EXCEPT !.cstate[c] = "ModeActive",
                                   !.phase[c] = "Initialization",
                                   !.localDone[c] = FALSE]}
              ELSE {})
        \cup R(st = "ModeResuming", [w EXCEPT !.cstate[c] = "ModeActive"])
        \cup R(st = "ModeActive" /\ w.cmode[c] = AugmentedRealityMode,
               [w EXCEPT !.cstate[c] = "SettingsChange"])
        \cup R(st = "SettingsChange",
               [w EXCEPT !.cstate[c] = "ModeSetup",
                         !.phase[c] = "Completion",
                         !.localDone[c] = FALSE])

\* a connection opened by the remote side or by zvConnectToDefaultViewer
NewConnection(w) ==
    LET free == {c \in Conns : w.alive[c] = "unborn"}
        c == CHOOSE x \in free : \A y \in free : x <= y
    IN  IF free = {} THEN w ELSE [w EXCEPT !.alive[c] = "live"]

----------------------------------------------------------------------------
(* The main loop of WinMain: at most one message, updateZview, drawZview.  *)
(* The message of an iteration is a change of the window size or a key.    *)
(* The loop is checked once per kind of message: Spec takes the connect,   *)
(* pause / resume and close keys, SpecResize the changes of the window     *)
(* size, SpecSwitch the switch-mode key, and SpecResizeSwitch the changes  *)
(* of the window size together with the switch-mode key.                   *)

Msg(w) == Commit(w, "msg") /\ pc' = "list" /\ UNCHANGED <<idx, connList>>

NoMessage == pc = "msg" /\ Msg(World)

Resize ==
    /\ pc = "msg"
    /\ \E r \in Resolutions :
        /\ r # <<winW, winH>>
        /\ Msg([World EXCEPT !.winW = r[1], !.winH = r[2]])

\* key 'C': zvConnectToDefaultViewer makes the transport open a connection
KeyConnect ==
    /\ pc = "msg"
    /\ activeConn = NULL
    /\ Msg(Op(NewConnection(World), "zvConnectToDefaultViewer", 0, 0, ""))

KeySwitchMode ==
    /\ pc = "msg"
    /\ \E n \in 0..NumSupportedModes,
          avail \in [1..NumSupportedModes -> BOOLEAN] :
        Msg(switchZviewMode(World, n, avail))

KeyPauseResume == pc = "msg" /\ Msg(pauseResumeZviewMode(World))

KeyCloseAndExit == pc = "msg" /\ Msg(closeZviewConnectionAndExitViewer(World))

\* zvUpdateConnectionList, zvGetNumConnections
LiveList(w) ==
    SelectSeq([i \in 1..MaxConns |-> i], LAMBDA c : w.alive[c] = "live")

UpdateList ==
    /\ pc = "list"
    /\ \E w \in {World, NewConnection(World)} :
        /\ Commit(Op(w, "zvUpdateConnectionList", 0, 0, ""), "list")
        /\ connList' = LiveList(w)
        /\ idx' = IF LiveList(w) = <<>> THEN 0 ELSE 1
        /\ pc' = IF LiveList(w) = <<>> THEN "draw" ELSE "conn"

\* The states a read through a destroyed handle can produce, one for each
\* way processZviewVideoRecording treats a state: it only tests whether the
\* state equals the last known one and whether it is the error state.
DanglingReads == {"NotAvailable", "VrError"}

\* what zvGetVideoRecordingState can do at the end of updateZviewConnection:
\* the handle is destroyed by then iff the report is Closed or Error
PollOutcomes(w, c) ==
    IF w.cstate[c] \in {"Closed", "Error"}
    THEN DanglingReads \cup {"fail", "crash"}
    ELSE {"valid"}

\* what the transport can do to the video recording of connection c
\* before a poll: the remote side makes recording available to an accepted
\* connection, or a recording runs into an error
RecordingReports(w, c) ==
    (IF w.vr[c] = "NotAvailable" /\ w.accepted[c]
        /\ w.cstate[c] \notin {"Closed", "Error"}
     THEN {[w EXCEPT !.vr[c] = "NotRecording"]} ELSE {})
    \cup (IF w.vr[c] \in {"NotRecording", "Recording", "Paused", "Finished"}
          THEN {[w EXCEPT !.vr[c] = "VrError"]} ELSE {})

\* the reports of a transport whose remote side supports video recording
EnvReportsRecording(w, c) == EnvReports(w, c) \cup RecordingReports(w, c)

\* one iteration of the loop of updateZview
UpdateConnOn(recording) ==
    /\ pc = "conn"
    /\ \E report \in (IF recording
                       THEN EnvReportsRecording(World, connList[idx])
                       ELSE EnvReports(World, connList[idx])) :
       \E outcome \in PollOutcomes(report, connList[idx]) :
       \E w \in {updateZviewConnection(report, connList[idx], outcome)} :
            /\ Commit(Reclaim(w), "update")
            /\ IF w.halt
               THEN pc' = "halted" /\ idx' = 0 /\ connList' = <<>>
               ELSE IF w.ok /\ idx < Len(connList)
               THEN pc' = "conn" /\ idx' = idx + 1 /\ UNCHANGED connList
               ELSE pc' = "draw" /\ idx' = 0 /\ connList' = <<>>

UpdateConn == UpdateConnOn(FALSE)

\* drawZview, with the intrinsics of the received frame taken from the
\* given set
DrawWith(intrinsicsOfFrames) ==
    /\ pc = "draw"
    /\ \E slot \in BOOLEAN, recv \in Tags \cup {NoFrame},
          intrinsics \in intrinsicsOfFrames :
        /\ (slot /\ StandardFrameDue(World)) => frameNumber < MaxFrame
        /\ Commit(drawZview([World EXCEPT !.intrinsics = intrinsics],
                            slot, recv), "draw")
    /\ pc' = "msg"
    /\ UNCHANGED <<idx, connList>>

Draw == DrawWith({DefaultIntrinsics})

\* the main loop with the connect, pause / resume and close keys
Next ==
    \/ NoMessage \/ KeyConnect \/ KeyPauseResume \/ KeyCloseAndExit
    \/ UpdateList \/ UpdateConn \/ Draw

Spec == Init /\ [][Next]_vars

\* the main loop with changes of the window size
NextResize ==
    \/ NoMessage \/ Resize
    \/ UpdateList \/ UpdateConn \/ Draw

SpecResize == Init /\ [][NextResize]_vars

\* the main loop with the switch-mode key
NextSwitch ==
    \/ NoMessage \/ KeySwitchMode
    \/ UpdateList \/ UpdateConn \/ Draw

SpecSwitch == Init /\ [][NextSwitch]_vars

\* the main loop with changes of the window size and the switch-mode key
NextResizeSwitch ==
    \/ NoMessage \/ Resize \/ KeySwitchMode
    \/ UpdateList \/ UpdateConn \/ Draw

SpecResizeSwitch == Init /\ [][NextResizeSwitch]_vars

----------------------------------------------------------------------------
(* Video recording: the main loop with a remote side that supports video   *)
(* recording, and the six recording keys.                                  *)

KeyVideoRecording ==
    /\ pc = "msg"
    /\ \E key \in VideoRecordingKeys, supported \in BOOLEAN,
          quality \in Qualities :
        Msg(processZviewVideoRecordingKeyPress(World, key, supported,
                                               quality))

UpdateConnRecording == UpdateConnOn(TRUE)

NextRecording ==
    \/ NoMessage \/ KeyConnect \/ KeyVideoRecording \/ KeyCloseAndExit
    \/ UpdateList \/ UpdateConnRecording \/ Draw

SpecRecording == Init /\ [][NextRecording]_vars

----------------------------------------------------------------------------
(* Failures: the main loop with a transport and a tracking library that    *)
(* can fail a call.  The calls that fail here are zvUpdateConnection in    *)
(* updateZviewConnection and every checked call of drawZview.  WinMain     *)
(* drops the results of updateZview and of drawZview, so the loop goes on  *)
(* after a "return false".  At most MaxFaults calls fail in a run.         *)

DrawFailures ==
    {"zvGetConnectionState", "zvGetConnectionMode", "zvGetNextFrameToSend",
     "zvSetFrameDataU64", "zvGetFrameBuffer", "zvSendFrame",
     "zvReceiveFrame", "zvGetFrameData", "zvReleaseReceivedFrame"}
        \cup ZcCalls

\* an iteration of the loop of updateZview whose zvUpdateConnection fails:
\* updateZviewConnection and then updateZview return false
UpdateConnFault ==
    /\ pc = "conn"
    /\ hist.faults < MaxFaults
    /\ \E report \in EnvReports(World, connList[idx]) :
       \E w \in {updateZviewConnection(
                     [report EXCEPT !.failOp = "zvUpdateConnection"],
                     connList[idx], "valid")} :
            /\ Commit(Reclaim(w), "update")
            /\ pc' = "draw" /\ idx' = 0 /\ connList' = <<>>

\* a call of drawZview in which one of the checked calls fails
DrawFault ==
    /\ pc = "draw"
    /\ hist.faults < MaxFaults
    /\ \E slot \in BOOLEAN, recv \in Tags \cup {NoFrame},
          failOp \in DrawFailures :
       \E w \in {drawZview([World EXCEPT !.failOp = failOp], slot, recv)} :
            /\ HasOp(w.ops, "failed")
            /\ Commit(w, "draw")
    /\ pc' = "msg"
    /\ UNCHANGED <<idx, connList>>

NextFault ==
    \/ NoMessage \/ KeyConnect \/ KeyCloseAndExit
    \/ UpdateList \/ UpdateConn \/ UpdateConnFault \/ Draw \/ DrawFault

SpecFault == Init /\ [][NextFault]_vars

----------------------------------------------------------------------------
(* Handler failures: the main loop with a transport whose calls inside     *)
(* the state handlers of updateZviewConnection can fail: accepting a       *)
(* session, publishing the node status, the calls of the settings batch,   *)
(* and the release of the Standard-mode viewport in the mode teardown.     *)
(* The outcome of a failing zvEndSettingsBatch for the batch is decided    *)
(* inside the library, so that call does not fail here.                    *)

HandlerFailures ==
    {"zvAcceptConnection", "zvSetNodeStatus", "zvBeginSettingsBatch",
     "zvSetSettingU16", "zcDestroyViewport"}

\* an iteration of the loop of updateZview in which a checked call of the
\* state handler fails: the handler, updateZviewConnection and updateZview
\* return false
UpdateConnHandlerFault ==
    /\ pc = "conn"
    /\ hist.faults < MaxFaults
    /\ \E report \in EnvReports(World, connList[idx]),
          failOp \in HandlerFailures :
       \E w \in {updateZviewConnection(
                     [report EXCEPT !.failOp = failOp],
                     connList[idx], "valid")} :
            /\ ~w.ok
            /\ Commit(Reclaim(w), "update")
            /\ pc' = "draw" /\ idx' = 0 /\ connList' = <<>>

NextHandlerFault ==
    \/ NoMessage \/ KeyConnect \/ KeyCloseAndExit
    \/ UpdateList \/ UpdateConn \/ UpdateConnHandlerFault \/ Draw

SpecHandlerFault == Init /\ [][NextHandlerFault]_vars

----------------------------------------------------------------------------
(* Progress: the main loop with no failing call and a remote side that     *)
(* keeps a session open while its mode is set up and eventually completes  *)
(* every setup phase this side has completed.  WinMain runs its loop until *)
(* it quits, so the steps of the loop are weakly fair; the remote side's   *)
(* completion of a phase stays possible until it happens, so it is weakly  *)
(* fair too.  The program sees the completion in its next                  *)
(* zvUpdateConnection of the session.                                      *)

\* the reports in which the remote side completes the current setup phase
CompletionReports(w, c) ==
    {r \in EnvReports(w, c) :
        /\ w.cstate[c] = "ModeSetup" /\ w.localDone[c]
        /\ r.cstate[c] \in {"ModeSetup", "ModeActive"}
        /\ r # w}

\* every other report, without the end of a session in mode setup
OtherReports(w, c) ==
    {r \in EnvReports(w, c) \ CompletionReports(w, c) :
        w.cstate[c] = "ModeSetup" => r = w}

\* the reads of the recording poll that do not make the poll fail
QuietOutcomes(w, c) == PollOutcomes(w, c) \ {"fail", "crash"}

UpdateConnLive ==
    /\ pc = "conn"
    /\ \E report \in OtherReports(World, connList[idx]) :
       \E outcome \in QuietOutcomes(report, connList[idx]) :
       \E w \in {updateZviewConnection(report, connList[idx], outcome)} :
            /\ Commit(Reclaim(w), "update")
            /\ IF idx < Len(connList)
               THEN pc' = "conn" /\ idx' = idx + 1 /\ UNCHANGED connList
               ELSE pc' = "draw" /\ idx' = 0 /\ connList' = <<>>

\* the remote side completes the setup phase of connection c that this
\* side has completed
RemoteCompletes(c) ==
    /\ cstate[c] = "ModeSetup" /\ localDone[c]
    /\ \E r \in CompletionReports(World, c) :
          /\ cstate' = r.cstate /\ phase' = r.phase
          /\ localDone' = r.localDone
          /\ setW' = r.setW /\ setH' = r.setH
    /\ step' = "remote" /\ ops' = <<>>
    /\ UNCHANGED <<progVars, loopVars, alive, cmode, accepted, closeReq,
                   batchOpen, stagedW, stagedH, vr, sstate, smode,
                   seen, hist, overlay, projection, mask>>

RemoteStep == \E c \in Conns : RemoteCompletes(c)

NextLive ==
    \/ NoMessage \/ KeySwitchMode
    \/ UpdateList \/ UpdateConnLive \/ RemoteStep
    \/ Draw

\* a step that moves the main loop on: every step of NextLive but the
\* remote side's is one, and in every state one of them is possible
LoopAdvances ==
    \E p \in {"msg", "list", "conn", "draw"}, i \in 0..MaxConns :
        /\ pc' = p /\ idx' = i
        /\ <<p, i>> # <<pc, idx>>

SpecLive ==
    /\ Init /\ [][NextLive]_vars
    /\ WF_<<pc, idx>>(LoopAdvances)
    /\ \A c \in Conns : WF_vars(RemoteCompletes(c))

----------------------------------------------------------------------------
(* Projection: the main loop with received frames that carry any of the    *)
(* intrinsics below.                                                       *)

Intrinsics ==
    [focalLength : {Q(n) : n \in 1..MaxIntrinsic},
     offsetX : {Q(0), Q(MaxIntrinsic)},
     offsetY : {Q(0), Q(1)},
     pixelAspectRatio : {Q(1), Rat(1, MaxIntrinsic)},
     axisSkew : {Q(0), Q(1)}]

DrawProjection == DrawWith(Intrinsics)

NextProjection ==
    \/ NoMessage \/ KeyConnect \/ UpdateList \/ UpdateConn
    \/ DrawProjection

SpecProjection == Init /\ [][NextProjection]_vars

----------------------------------------------------------------------------
(* The mask geometry on its own: updateZviewAugmentedRealityMode fills the *)
(* mask vertex buffer for any viewport size of whole metres that is not    *)
(* larger than the cube face.                                              *)

ViewportSizes ==
    {<<Meters(w), Meters(h)>> :
        w, h \in 0..ZVIEW_AUGMENTED_REALITY_MODE_MASK_CUBE_SIDE_LENGTH_METERS}

UpdateMask ==
    /\ \E viewportSizeMeters \in ViewportSizes :
        mask' = [viewportSizeMeters |-> viewportSizeMeters,
                 verts |-> maskGeometryVerts(viewportSizeMeters)]
    /\ UNCHANGED <<progVars, netVars, loopVars, step, ops, seen, hist,
                   overlay, projection>>

NextMask == UpdateMask

SpecMask == Init /\ [][NextMask]_vars

----------------------------------------------------------------------------
(* The clamped increment on its own: any starting value of the setting,    *)
(* then any sequence of calls with bounds min <= max.                       *)

SettingBounds == {F32(n) : n \in -MaxSetting..MaxSetting}

Increments == {F32(n) : n \in (-MaxDelta..MaxDelta) \ {0}}

\* values a setting can hold before the first call: in and out of every
\* range, and not a number
SettingValues ==
    {F32(n) : n \in -(MaxSetting + MaxDelta)..(MaxSetting + MaxDelta)}
        \cup {NaN}

InitClamp ==
    /\ InitProgram /\ mask = NoMask
    /\ overlay \in {OverlayIdle(v) : v \in SettingValues}

IncrementClamped ==
    /\ \E increment \in Increments, min \in SettingBounds,
          max \in SettingBounds :
        /\ min.n <= max.n
        /\ overlay' =
              incrementZviewSettingClampedF32(overlay, increment, min, max)
    /\ UNCHANGED <<progVars, netVars, loopVars, step, ops, seen, hist,
                   projection, mask>>

NextClamp == IncrementClamped

SpecClamp == InitClamp /\ [][NextClamp]_vars

----------------------------------------------------------------------------
(* Overlay control keys: processZviewAugmentedRealityModeOverlayControl-    *)
(* KeyPress on its own, started in any of the situations of the active      *)
(* session below.  The offsets are on the grid of their increment 1.0 and   *)
(* the scale factors on the grid of their increment 0.01, so the scale      *)
(* bounds 0.01 and 10.0 are 1 and 1000 and the scale 1.0 is 100.            *)

OverlayKeys == {"A", "D", "S", "W", "Q", "E", "F", "H", "G", "T", "R", "Y"}

\* the tests that end the handler before the control key is looked at
OverlayKeysEnabled_AnyMode(w) ==
    /\ w.activeConn # NULL
    /\ w.sstate[w.activeConn] = "ModeActive"

OverlayKeysEnabled(w) ==
    /\ w.activeConn # NULL
    /\ w.sstate[w.activeConn] = "ModeActive"
    /\ w.smode[w.activeConn] = AugmentedRealityMode

\* incrementZviewSettingClampedF32 on setting k of the active connection:
\* r is [w, s] with s the F32 settings of that connection
IncrementOverlay(r, k, increment, min, max) ==
    LET e == incrementZviewSettingClampedF32(OverlayIdle(r.s[k]),
                                             increment, min, max)
        a == r.w.activeConn
    IN  [w |-> Op(Op(r.w, "zvGetSettingF32", a, e.before.n, k),
                  "zvSetSettingF32", a, e.value.n, k),
         s |-> [r.s EXCEPT ![k] = e.value]]

\* zvSetSettingF32 of setting k of the active connection
SetOverlay(r, k, value) ==
    [w |-> Op(r.w, "zvSetSettingF32", r.w.activeConn, value.n, k),
     s |-> [r.s EXCEPT ![k] = value]]

processZviewAugmentedRealityModeOverlayControlKeyPress(w, s, key, isControlKeyPressed) ==
    LET r == [w |-> w, s |-> s]
        imageWidth == F32(w.arW)
        minusImageWidth == F32(-w.arW)
    IN  IF ~OverlayKeysEnabled(w) THEN r
        ELSE IF ~isControlKeyPressed THEN r
        ELSE CASE key = "A" -> IncrementOverlay(r, "OverlayOffsetX", F32(-1),
                                                minusImageWidth, imageWidth)
               [] key = "D" -> IncrementOverlay(r, "OverlayOffsetX", F32(1),
                                                minusImageWidth, imageWidth)
               [] key = "S" -> IncrementOverlay(r, "OverlayOffsetY", F32(-1),
                                                minusImageWidth, imageWidth)
               [] key = "W" -> IncrementOverlay(r, "OverlayOffsetY", F32(1),
                                                minusImageWidth, imageWidth)
               [] key = "Q" -> SetOverlay(r, "OverlayOffsetX", F32(0))
               [] key = "E" -> SetOverlay(r, "OverlayOffsetY", F32(0))
               [] key = "F" -> IncrementOverlay(r, "OverlayScaleX", F32(-1),
                                                F32(1), F32(1000))
               [] key = "H" -> IncrementOverlay(r, "OverlayScaleX", F32(1),
                                                F32(1), F32(1000))
               [] key = "G" -> IncrementOverlay(r, "OverlayScaleY", F32(-1),
                                                F32(1), F32(1000))
               [] key = "T" -> IncrementOverlay(r, "OverlayScaleY", F32(1),
                                                F32(1), F32(1000))
               [] key = "R" -> SetOverlay(r, "OverlayScaleX", F32(100))
               [] key = "Y" -> SetOverlay(r, "OverlayScaleY", F32(100))
               [] OTHER -> r

\* the situations of the active session: none; one without a mode; one in
\* mode setup, active or paused in either mode
OverlaySituations ==
    {[a |-> NULL, st |-> "Initialization", m |-> NullMode],
     [a |-> 1, st |-> "NoMode", m |-> NullMode]}
        \cup [a : {1}, st : {"ModeSetup", "ModeActive", "ModePaused"},
              m : Modes]

\* the image sizes of the augmented reality mode
OverlayImageSizes == (1..MaxArSize) \X (1..MaxArSize)

\* the scale factors before the first key: the default 1.0 and values at
\* and next to the bounds, which presses of F, H, G, T reach from it
OverlayScales == {F32(1), F32(2), F32(100), F32(999), F32(1000)}

OverlaySettingsInit ==
    {[OverlayOffsetX |-> F32(0), OverlayOffsetY |-> F32(0),
      OverlayScaleX |-> x, OverlayScaleY |-> y] :
        x \in OverlayScales, y \in {F32(100), F32(1), F32(1000)}}

InitOverlay ==
    \E sit \in OverlaySituations, size \in OverlayImageSizes :
        /\ activeConn = sit.a /\ latestMode = sit.m /\ modeIndex = 0
        /\ vrLatest = "NotAvailable"
        /\ stdW = 0 /\ stdH = 0 /\ frameNumber = 0
        /\ hnd = [k \in Kinds |-> NULL] /\ live = [k \in Kinds |-> 0]
        /\ texW = 0 /\ texH = 0 /\ arW = size[1] /\ arH = size[2]
        /\ nodeStatus = IF sit.a = NULL
                        THEN ZVIEW_NODE_STATUS_NOT_CONNECTED
                        ELSE ZVIEW_NODE_STATUS_CONNECTED
        /\ winW = WindowWidthInit /\ winH = WindowHeightInit
        /\ alive = [c \in Conns |-> IF c = sit.a THEN "live" ELSE "unborn"]
        /\ cstate = [c \in Conns |->
                        IF c = sit.a THEN sit.st ELSE "Initialization"]
        /\ cmode = [c \in Conns |-> IF c = sit.a THEN sit.m ELSE NullMode]
        /\ phase = [c \in Conns |-> "Initialization"]
        /\ localDone = [c \in Conns |-> FALSE]
        /\ accepted = [c \in Conns |-> c = sit.a]
        /\ closeReq = [c \in Conns |-> "none"]
        /\ setW = [c \in Conns |-> IF c = sit.a THEN size[1] ELSE 0]
        /\ setH = [c \in Conns |-> IF c = sit.a THEN size[2] ELSE 0]
        /\ batchOpen = [c \in Conns |-> FALSE]
        /\ stagedW = [c \in Conns |-> NULL]
        /\ stagedH = [c \in Conns |-> NULL]
        /\ vr = [c \in Conns |-> "NotAvailable"]
        /\ sstate = cstate /\ smode = cmode
        /\ pc = "msg" /\ idx = 0 /\ connList = <<>>
        /\ step = "init" /\ ops = <<>> /\ seen = <<>>
        /\ hist = [stdLast |-> -1, suLast |-> -1, tdRun |-> 0,
                   skipRun |-> 0, pending |-> -1, resumed |-> 0,
                   switched |-> "none", faults |-> 0, failed |-> {},
                   unreleased |-> FALSE, unsent |-> FALSE,
                   vrSeen |-> [c \in Conns |-> "NotAvailable"]]
        /\ projection = NoProjection /\ mask = NoMask
        /\ overlay \in {[s |-> s0, keys |-> 0] : s0 \in OverlaySettingsInit}

KeyOverlay ==
    /\ overlay.keys < MaxKeys
    /\ \E key \in OverlayKeys \cup {"Z"}, isControlKeyPressed \in BOOLEAN :
       \E r \in {processZviewAugmentedRealityModeOverlayControlKeyPress(
                     World, overlay.s, key, isControlKeyPressed)} :
            /\ overlay' = [s |-> r.s, keys |-> overlay.keys + 1]
            /\ ops' = r.w.ops
            /\ step' = "key"
    /\ UNCHANGED <<progVars, netVars, loopVars, seen, hist, projection, mask>>

NextOverlay == KeyOverlay

SpecOverlay == InitOverlay /\ [][NextOverlay]_vars
----------------------------------------------------------------------------
(* Properties *)

\* positions of the calls of one operation in the log of the last step
OpsAt(o, name) == {i \in DOMAIN o : o[i].op = name}

\* the sessions that were accepted and not yet observed Closed or Error
AcceptedSessions == {c \in Conns : alive[c] = "live" /\ accepted[c]}

StdSendsIn(o) == {i \in OpsAt(o, "zvSendFrame") : o[i].k = StandardMode}

ArSendsIn(o) == {i \in OpsAt(o, "zvSendFrame") : o[i].k = AugmentedRealityMode}

StdSkipsIn(o) ==
    {i \in OpsAt(o, "zvGetNextFrameToSend") :
        o[i].k = StandardMode /\ o[i].v = 0}

\* C1, state part: at most one session is accepted and not yet observed
\* closed, and the active-session pointer is NULL or refers to exactly it.
C1State ==
    /\ Cardinality(AcceptedSessions) <= 1
    /\ activeConn # NULL => AcceptedSessions = {activeConn}
    /\ activeConn = NULL => AcceptedSessions = {}

\* C1, step part: zvAcceptConnection is issued only by a step that started
\* with no active session, and for the session that becomes the active one.
C1Step ==
    \A i \in OpsAt(ops', "zvAcceptConnection") :
        activeConn = NULL /\ activeConn' = ops'[i].c

\* C1: over any sequence of ticks and transport reports at most one session
\* is accepted/active at a time; accept is issued only while no session is
\* active; the active-session pointer refers to at most one accepted session
\* that has not been observed Closed or Error.
Inv_C1 == C1State /\ [][C1Step /\ C1State']_vars

\* a session is accepted while another connection is open
Witness_C1 ==
    /\ HasOp(ops, "zvAcceptConnection")
    /\ \E c \in Conns : c # activeConn /\ alive[c] = "live"

\* C2: in augmented reality mode every frame sent carries the tag of the
\* frame received by the same drawZview call; it is the only frame received
\* in that call, so the tag is neither one of an earlier tick nor a counter.
Inv_C2 ==
    \A i \in ArSendsIn(ops) :
        /\ \E j \in OpsAt(ops, "zvReceiveFrame") :
              j < i /\ ops[j].v = ops[i].v /\ ops[j].v # NoFrame
        /\ Cardinality(OpsAt(ops, "zvReceiveFrame")) = 1
        /\ \E j \in OpsAt(ops, "zvSetFrameDataU64") :
              j < i /\ ops[j].v = ops[i].v

\* an augmented reality frame is sent whose tag differs from the local
\* frame counter
Witness_C2 ==
    \E i \in ArSendsIn(ops) : ops[i].v # frameNumber /\ ops[i].v = MaxTag

\* C3: when width and height are written together, every pair the remote
\* side can read is the pair from before the batch or the pair written
\* (the window size); no pair with only one of the two changed is readable.
Inv_C3 ==
    seen # <<>> =>
        /\ \A i \in DOMAIN seen : seen[i] \in {seen[1], seen[Len(seen)]}
        /\ HasOp(ops, "zvEndSettingsBatch") => seen[Len(seen)] = <<winW, winH>>

\* the resolution change of an active standard mode session changes both
\* the width and the height
Witness_C3 ==
    /\ step = "draw"
    /\ HasOp(ops, "zvEndSettingsBatch")
    /\ seen[1][1] # seen[Len(seen)][1]
    /\ seen[1][2] # seen[Len(seen)][2]
    /\ seen[1][1] # 0

\* C4 as stated: in standard mode the tag of every frame sent is greater
\* than the tag of every frame sent before it since the session entered
\* standard mode.
Orig_C4 ==
    [][\A i \in StdSendsIn(ops') :
          hist.stdLast # -1 => ops'[i].v > hist.stdLast]_vars

\* C4 amended: the tags of the frames sent in standard mode count up by one
\* from 0 after each run of setUpZviewStandardMode, so they strictly
\* increase between two consecutive runs of it.
Amended_C4 ==
    [][\A i \in StdSendsIn(ops') : ops'[i].v = hist.suLast + 1]_vars

\* a second frame is sent after one run of setUpZviewStandardMode
Witness_C4 ==
    \E i \in StdSendsIn(ops) : ops[i].v >= 1 /\ hist.suLast = ops[i].v

\* C5, a standard mode tick without a frame slot: the counter is unchanged,
\* nothing but the slot request is issued and no setting is written.
C5Skip ==
    StdSkipsIn(ops') # {} =>
        /\ frameNumber' = frameNumber
        /\ Len(ops') = 1
        /\ seen' = <<>>
        /\ setW' = setW /\ setH' = setH

\* C5, a standard mode tick that sends: the tag is the counter, which is the
\* one that was pending when the run of skipped ticks began, and the counter
\* advances by one.
C5Send ==
    \A i \in StdSendsIn(ops') :
        /\ ops'[i].v = frameNumber
        /\ hist.skipRun > 0 => ops'[i].v = hist.pending
        /\ frameNumber' = frameNumber + 1

\* C5: a standard mode tick with no frame slot leaves the frame counter
\* unchanged and renders, sends and writes nothing; after a run of such
\* ticks the next frame sent carries the counter pending before the run;
\* the counter advances by exactly one per frame sent.
Inv_C5 == [][step' = "draw" => C5Skip /\ C5Send]_vars

\* a frame is sent right after two skipped ticks in a row
Witness_C5 ==
    /\ step = "draw"
    /\ StdSendsIn(ops) # {}
    /\ hist.resumed >= 2

\* C6: a step of updateZviewConnection that observes Closed or Error issues
\* zvDestroyConnection for that connection in the same step, whether or not
\* the connection was the active one.
Inv_C6 ==
    \A i \in OpsAt(ops, "zvUpdateConnection") :
        ops[i].k \in {"Closed", "Error"} =>
            \E j \in OpsAt(ops, "zvDestroyConnection") :
                j > i /\ ops[j].c = ops[i].c

\* a connection that was never accepted is observed in Error and destroyed
Witness_C6 ==
    \E i \in OpsAt(ops, "zvUpdateConnection"),
       j \in OpsAt(ops, "zvDestroyConnection") :
        /\ ops[i].k = "Error" /\ ops[j].c = ops[i].c
        /\ ops[j].k = "notAccepted"
        /\ activeConn # NULL

C8Step ==
    \A i \in OpsAt(ops', "zvUpdateConnection") :
        (ops'[i].k = "AwaitingAcceptance"
         /\ activeConn # NULL /\ activeConn # ops'[i].c) =>
            /\ \E j \in OpsAt(ops', "zvCloseConnection") :
                  j > i /\ ops'[j].c = ops'[i].c /\ ops'[j].k = "rejected"
            /\ ~HasOp(ops', "zvAcceptConnection")
            /\ activeConn' = activeConn

\* C8, state part: a rejected connection is not accepted and not active.
C8State ==
    \A c \in Conns :
        closeReq[c] = "rejected" => ~accepted[c] /\ activeConn # c

\* C8: a session observed in AwaitingAcceptance while a different session
\* is active is closed in the same tick with the rejected reason, is never
\* accepted and never becomes the active session.
Inv_C8 == C8State /\ [][C8Step /\ C8State']_vars

\* a connection is rejected by the step that observed it
Witness_C8 ==
    \E i \in OpsAt(ops, "zvUpdateConnection"),
       j \in OpsAt(ops, "zvCloseConnection") :
        /\ ops[i].k = "AwaitingAcceptance" /\ ops[j].c = ops[i].c
        /\ ops[j].k = "rejected"
        /\ closeReq[ops[i].c] = "rejected"

\* the part of the world the teardown functions work on
Resources(w) == <<w.hnd, w.live, w.latestMode>>

Quiet(w) == [w EXCEPT !.ops = <<>>]

\* once is the world after one call of a teardown function, twice the world
\* after a second call made right after it: the second call changed nothing
\* and released nothing
SameAfter(once, twice) ==
    /\ Resources(twice) = Resources(once)
    /\ ~HasOp(twice.ops, "release")

\* C9: from every reachable state, each teardown function called a second
\* time leaves the resource state of the first call and releases nothing;
\* after tearDownZviewMode every handle is released and the remembered mode
\* is cleared; and a tearDownZviewMode that follows another one with no
\* mode setup in between releases nothing.
Inv_C9 ==
    /\ SameAfter(tearDownZviewMode(World),
                 tearDownZviewMode(Quiet(tearDownZviewMode(World))))
    /\ SameAfter(tearDownZviewStandardMode(World),
                 tearDownZviewStandardMode(
                     Quiet(tearDownZviewStandardMode(World))))
    /\ SameAfter(tearDownZviewAugmentedRealityMode(World),
                 tearDownZviewAugmentedRealityMode(
                     Quiet(tearDownZviewAugmentedRealityMode(World))))
    /\ \A k \in Kinds : tearDownZviewMode(World).hnd[k] = NULL
                         /\ tearDownZviewMode(World).live[k] = 0
    /\ tearDownZviewMode(World).latestMode = NullMode
    /\ (hist.tdRun = 2 /\ HasOp(ops, "tearDownZviewMode")) =>
           /\ ~HasOp(ops, "release")
           /\ \A k \in Kinds : hnd[k] = NULL /\ live[k] = 0

\* tearDownZviewMode is called again after a call that released resources
Witness_C9 == hist.tdRun = 2 /\ HasOp(ops, "tearDownZviewMode")

\* the kinds of mode resources that are allocated
Allocated == {k \in Kinds : live[k] > 0}

\* C10: every handle variable stands for at most one live resource, so no
\* resource is allocated while an earlier instance of it is live; after a
\* run of the Completion phase of a mode, first or repeated, exactly the
\* resources of that mode are allocated, once each.
Inv_C10 ==
    /\ \A k \in Kinds : live[k] = (IF hnd[k] # NULL THEN 1 ELSE 0)
    /\ HasOp(ops, "setUpZviewStandardMode") =>
           Allocated = Range(StdAllocOrder)
    /\ HasOp(ops, "setUpZviewAugmentedRealityMode") =>
           Allocated = Range(ArAllocOrder)

\* the Completion phase of standard mode runs again with its resources live
Witness_C10 ==
    \E i \in OpsAt(ops, "setUpZviewStandardMode"),
       j \in OpsAt(ops, "release") :
        i < j /\ ~HasOp(ops, "tearDownZviewMode")

InRangeF32(v, min, max) == ~v.nan /\ min.n <= v.n /\ v.n <= max.n

\* an increment call has been made
Incremented == overlay.increment # F32(0)

\* C11 as stated: for every starting value, after each clamped increment
\* with min <= max the stored value lies in [min, max] and has not moved
\* opposite to the sign of the increment.
Orig_C11 ==
    Incremented =>
        /\ InRangeF32(overlay.value, overlay.min, overlay.max)
        /\ overlay.increment.n > 0 => ~LessF32(overlay.value, overlay.before)
        /\ overlay.increment.n < 0 => ~LessF32(overlay.before, overlay.value)

\* C11 amended: if the value read is a number, the value stored lies in
\* [min, max]; it has not moved opposite to the sign of the increment if
\* the value read was on the increment's side of the bound it moves
\* towards (not above max for a positive increment, not below min for a
\* negative one); a NaN is stored back as it is.
Amended_C11 ==
    Incremented =>
        /\ ~overlay.before.nan =>
               InRangeF32(overlay.value, overlay.min, overlay.max)
        /\ (overlay.increment.n > 0
            /\ ~LessF32(overlay.max, overlay.before)
            /\ ~overlay.before.nan) =>
               overlay.value.n >= overlay.before.n
        /\ (overlay.increment.n < 0
            /\ ~LessF32(overlay.before, overlay.min)
            /\ ~overlay.before.nan) =>
               overlay.value.n <= overlay.before.n
        /\ overlay.before.nan => overlay.value.nan

\* a positive increment is cut at max after the value moved up
Witness_C11 ==
    /\ Incremented
    /\ overlay.increment.n > 0
    /\ overlay.value = overlay.max
    /\ overlay.before.n < overlay.value.n
    /\ overlay.before.n + overlay.increment.n > overlay.max.n

\* the supported modes the last step's switchZviewMode looked at, in order
Visited(o) == OpsAt(o, "zvGetConnectionSupportedMode")

\* C12, the command: from index i0 with n supported modes the j-th entry
\* looked at is (i0 + j) mod n; every entry before the last one looked at
\* is not available; if the last one is available, one mode change to it is
\* issued and the index stays on it; if none is, all n entries were looked
\* at and no mode change is issued.
C12Switch ==
    \A s \in OpsAt(ops', "zvGetNumConnectionSupportedModes") :
        LET n == ops'[s].v
            m == Cardinality(Visited(ops'))
            sets == OpsAt(ops', "zvSetConnectionMode")
        IN  /\ activeConn # NULL
            /\ sstate[activeConn] \in {"NoMode", "ModeActive"}
            /\ s = 1 /\ Visited(ops') = 2..(m + 1) /\ m <= n
            /\ \A j \in 1..m :
                  /\ ops'[j + 1].v = (modeIndex + j) % n
                  /\ j < m => ops'[j + 1].k = "NotAvailable"
            /\ m > 0 => modeIndex' = ops'[m + 1].v
            /\ m = 0 => modeIndex' = modeIndex
            /\ IF m > 0 /\ ops'[m + 1].k = "Available"
               THEN /\ sets = {m + 2} /\ Len(ops') = m + 2
                    /\ ops'[m + 2].c = activeConn
                    /\ ops'[m + 2].k = SupportedModes[ops'[m + 1].v + 1]
                    /\ cmode'[activeConn] = ops'[m + 2].k
               ELSE /\ sets = {} /\ m = n /\ Len(ops') = m + 1
                    /\ cmode' = cmode
            /\ (n = NumSupportedModes /\ modeIndex = 0
                /\ ops'[2].k = "Available") => modeIndex' = 1

\* a mode setup tick of the active session follows a mode change that
\* switchZviewMode issued
SetupAfterSwitch ==
    /\ hist.switched # "none"
    /\ \E i \in OpsAt(ops', "zvUpdateConnection") :
          ops'[i].k = "ModeSetup" /\ ops'[i].c = activeConn

Inv_C13 ==
    [][\A i \in OpsAt(ops', "zvGetVideoRecordingState") :
          (step' = "update" /\ ops'[i].k = "VrError"
           /\ alive'[ops'[i].c] = "live") =>
              /\ Len(ops') \in {i + 3, i + 4}
              /\ Len(ops') = i + 4 => ops'[i + 1].op = "logTransition"
              /\ ops'[Len(ops') - 2].op = "zvGetVideoRecordingError"
              /\ ops'[Len(ops') - 1].op = "logError"
              /\ ops'[Len(ops')].op = "zvClearVideoRecordingError"
              /\ \A j \in (i + 1)..Len(ops') : ops'[j].c = ops'[i].c
              /\ vr'[ops'[i].c] = "NotRecording"
              /\ vrLatest' = "VrError"
              /\ pc' # "halted"
              /\ IF idx < Len(connList)
                 THEN pc' = "conn" /\ idx' = idx + 1
                 ELSE pc' = "draw"
              /\ cstate'[ops'[i].c] \in {"Closed", "Error"} =>
                     HasOp(ops', "zvCloseConnection")
              /\ accepted'[ops'[i].c] = accepted[ops'[i].c]
                     \/ HasOp(ops', "zvAcceptConnection")]_vars

\* the poll of the active session cleared a recording error and the loop
\* goes on with another connection
Witness_C13 ==
    /\ step = "update" /\ pc = "conn"
    /\ \E i \in OpsAt(ops, "zvClearVideoRecordingError") :
          /\ ops[i].c = activeConn
          /\ vr[activeConn] = "NotRecording"
          /\ cstate[activeConn] = "ModeActive"

\* the transport calls that change a recording or its settings
RecordingMutations == VideoRecordingCommands \cup {"zvSetSettingU32"}

ValidSources(command) ==
    CASE command \in {"zvStartVideoRecording", "zvSetSettingU32"} ->
             {"NotRecording"}
      [] command = "zvPauseVideoRecording" -> {"Recording"}
      [] command = "zvResumeVideoRecording" -> {"Paused"}
      [] command = "zvFinishVideoRecording" -> {"Recording", "Paused"}
      [] command \in {"zvSaveVideoRecording", "zvDiscardVideoRecording"} ->
             {"Finished"}

\* C14: a recording key issues at most one call that changes the recording
\* or its quality, only for the active session and only if the recording
\* is in a valid source state of that call (start and quality from
\* NotRecording, pause from Recording, resume from Paused, finish from
\* Recording or Paused, save and discard from Finished), and the recording
\* is then in the state the call leads to; in every other case, and with
\* no active session or with recording not available, nothing changes.
Inv_C14 ==
    [][step' = "msg" =>
          LET muts == {i \in DOMAIN ops' : ops'[i].op \in RecordingMutations}
          IN  /\ Cardinality(muts) <= 1
              /\ \A i \in muts :
                    /\ activeConn # NULL /\ ops'[i].c = activeConn
                    /\ vr[activeConn] \in ValidSources(ops'[i].op)
                    /\ ops'[i].op \in VideoRecordingCommands =>
                           vr' = [vr EXCEPT ![activeConn] =
                                               StateAfter(ops'[i].op)]
                    /\ ops'[i].op = "zvSetSettingU32" => vr' = vr
              /\ muts = {} => vr' = vr
              /\ vrLatest' = vrLatest /\ activeConn' = activeConn
              /\ (activeConn = NULL \/ vr[activeConn] = "NotAvailable") =>
                     muts = {}]_vars

\* a paused recording is finished by the finish key
Witness_C14 ==
    /\ step = "msg"
    /\ HasOp(ops, "zvFinishVideoRecording")
    /\ \E i \in OpsAt(ops, "zvGetVideoRecordingState") :
          ops[i].k = "Paused"
    /\ vr[activeConn] = "Finished"

\* C15: after a transport call failed for a session, no other transport
\* call is issued for that session in the same tick (neither in the rest
\* of the step that failed nor in the later steps of the tick), and no
\* later tick begins.
Orig_C15 ==
    [][/\ \A i \in DOMAIN ops' :
            (ops'[i].op = "failed" /\ TransportOp(ops'[i])) =>
                \A j \in (i + 1)..Len(ops') :
                    ~(TransportOp(ops'[j]) /\ ops'[j].c = ops'[i].c)
       /\ hist.failed # {} =>
            /\ step' # "msg"
            /\ \A j \in DOMAIN ops' :
                  TransportOp(ops'[j]) => ops'[j].c \notin hist.failed]_vars

\* C16: a frame received in augmented reality mode is released in the same
\* call of drawZview, before any request for a frame to send, and no frame
\* is received while an earlier one is still unreleased.
Orig_C16 ==
    [][/\ \A i \in OpsAt(ops', "zvReceiveFrame") :
            ops'[i].v # NoFrame =>
                \E j \in OpsAt(ops', "zvReleaseReceivedFrame") :
                    /\ i < j /\ ops'[j].v = ops'[i].v
                    /\ \A n \in OpsAt(ops', "zvGetNextFrameToSend") : j < n
       /\ Cardinality(OpsAt(ops', "zvReceiveFrame")) <= 1
       /\ hist.unreleased => ~HasOp(ops', "zvReceiveFrame")]_vars

\* C17: a frame to send that drawZview got is sent by the same call of
\* drawZview, in both modes, and no frame to send is requested while an
\* earlier one is still unsent.
Orig_C17 ==
    [][/\ \A i \in OpsAt(ops', "zvGetNextFrameToSend") :
            ops'[i].v = 1 =>
                \E j \in OpsAt(ops', "zvSendFrame") :
                    i < j /\ ops'[j].c = ops'[i].c /\ ops'[j].k = ops'[i].k
       /\ Cardinality(OpsAt(ops', "zvGetNextFrameToSend")) <= 1
       /\ hist.unsent => ~HasOp(ops', "zvGetNextFrameToSend")]_vars

\* the calls of drawZview that request, receive, fill or send a frame
FrameOps ==
    {"zvGetNextFrameToSend", "zvReceiveFrame", "zvGetFrameData",
     "zvReleaseReceivedFrame", "zvSetFrameDataU64", "zvGetFrameBuffer",
     "zvSendFrame"}

\* C18: a frame call is issued only by drawZview, only for the active
\* session, and only when the state last reported for that session is
\* ModeActive.
Inv_C18 ==
    \A i \in DOMAIN ops :
        ops[i].op \in FrameOps =>
            /\ step = "draw"
            /\ activeConn # NULL /\ ops[i].c = activeConn
            /\ sstate[activeConn] = "ModeActive"

\* drawZview ran with an active session whose mode is paused and issued
\* no call
Witness_C18 ==
    /\ step = "draw" /\ ops = <<>>
    /\ activeConn # NULL
    /\ sstate[activeConn] = "ModePaused"
    /\ smode[activeConn] = StandardMode

\* log entries of processZviewVideoRecording
RecordingPollOps ==
    {"zvGetVideoRecordingState", "logTransition", "zvGetVideoRecordingError",
     "logError", "zvClearVideoRecordingError"}

\* C19: in every call of updateZviewConnection, whatever state
\* zvUpdateConnection reported, the video recording state of that
\* connection is polled, after every call of the state dispatch.
Inv_C19 ==
    \A i \in OpsAt(ops, "zvUpdateConnection") :
        \E j \in OpsAt(ops, "zvGetVideoRecordingState") :
            /\ i < j /\ ops[j].c = ops[i].c
            /\ \A n \in (i + 1)..(j - 1) : ops[n].op \notin RecordingPollOps
            /\ \A n \in j..Len(ops) : ops[n].op \in RecordingPollOps

\* the poll ran after the standard mode was set up in the mode setup state
Witness_C19 ==
    /\ step = "update"
    /\ ops[1].op = "zvUpdateConnection" /\ ops[1].k = "ModeSetup"
    /\ HasOp(ops, "setUpZviewStandardMode")
    /\ ops[Len(ops)].op = "zvGetVideoRecordingState"

\* C20: an augmented reality frame is sent only after, in the same call of
\* drawZview and in this order, the data of the received frame with the
\* same tag were read (camera pose), the projection matrix was computed,
\* the mask and view transforms were computed, and the image was drawn.
Orig_C20 ==
    \A i \in ArSendsIn(ops) :
        \E g, p, u, d \in 1..i :
            /\ g < p /\ p < u /\ u < d /\ d < i
            /\ ops[g].op = "zvGetFrameData" /\ ops[g].v = ops[i].v
            /\ ops[p].op = "computeZviewAugmentedRealityModeProjectionMatrix"
            /\ ops[u].op = "updateZviewAugmentedRealityMode"
            /\ ops[d].op = "drawZviewAugmentedRealityMode"

\* the product of glm::ortho(0, W, H, 0, n, f) and the perspective matrix
\* with the columns (fX, 0, 0, 0), (-s, -fY, 0, 0), (-cX, -cY, n + f, -1),
\* (0, 0, n * f, 0), worked out entry by entry; Column[c][r]
ProductOfOrthoAndPerspective(fX, fY, cX, cY, s, W, H, n, f) ==
    <<  <<RDiv(RMul(Q(2), fX), W), Q(0), Q(0), Q(0)>>,
        <<RNeg(RDiv(RMul(Q(2), s), W)), RDiv(RMul(Q(2), fY), H), Q(0), Q(0)>>,
        <<RSub(Q(1), RDiv(RMul(Q(2), cX), W)),
          RSub(RDiv(RMul(Q(2), cY), H), Q(1)),
          RNeg(RDiv(RAdd(f, n), RSub(f, n))),
          Q(-1)>>,
        <<Q(0), Q(0), RNeg(RDiv(RMul(Q(2), RMul(n, f)), RSub(f, n))), Q(0)>> >>

\* C21: the projection matrix drawZview assigns is the product of
\* ortho(0, imageWidth, imageHeight, 0, near, far) and the perspective
\* matrix of the intrinsics of the received frame (fX = focalLength,
\* fY = focalLength * pixelAspectRatio), and the call is made with
\* near = 0.1, far = 100 and the image width and height of the augmented
\* reality mode of the active session.
Inv_C21 ==
    HasOp(ops, "computeZviewAugmentedRealityModeProjectionMatrix") =>
        LET i == projection.intrinsics
        IN  /\ \A c \in 1..4 : \A r \in 1..4 :
                  projection.matrix[c][r] =
                      ProductOfOrthoAndPerspective(
                          i.focalLength,
                          RMul(i.focalLength, i.pixelAspectRatio),
                          i.offsetX, i.offsetY, i.axisSkew,
                          Q(projection.imageWidth), Q(projection.imageHeight),
                          projection.nearClip, projection.farClip)[c][r]
            /\ projection.nearClip = <<1, 10>>
            /\ projection.farClip = <<100, 1>>
            /\ activeConn # NULL
            /\ projection.imageWidth = setW[activeConn]
            /\ projection.imageHeight = setH[activeConn]
            /\ projection.imageWidth > 0 /\ projection.imageHeight > 0

\* a frame with a skewed camera and pixels that are not square was
\* projected and the image was sent
Witness_C21 ==
    /\ HasOp(ops, "computeZviewAugmentedRealityModeProjectionMatrix")
    /\ ArSendsIn(ops) # {}
    /\ projection.intrinsics.axisSkew = Q(1)
    /\ projection.intrinsics.pixelAspectRatio = Rat(1, MaxIntrinsic)
    /\ projection.intrinsics.offsetX = Q(MaxIntrinsic)
    /\ projection.intrinsics.offsetY = Q(1)

\* the four vertices of quad q (1..8) of vertex list v
QuadOf(v, q) == <<v[4 * q - 3], v[4 * q - 2], v[4 * q - 1], v[4 * q]>>

\* twice the cross product of edge a -> b with a -> p in the screen plane,
\* for a point p given in doubled coordinates
Side(a, b, p) ==
    (b[1] - a[1]) * (p[2] - 2 * a[2]) - (b[2] - a[2]) * (p[1] - 2 * a[1])

\* the point p (doubled coordinates) lies strictly inside the convex quad
InQuad(quad, p) ==
    LET d == [n \in 1..4 |-> Side(quad[n], quad[(n % 4) + 1], p)]
    IN  (\A n \in 1..4 : d[n] > 0) \/ (\A n \in 1..4 : d[n] < 0)

\* C22: the mask has 8 quads (32 vertices).  The first four lie in the
\* screen plane; every point of the cube face outside the viewport
\* rectangle is inside exactly one of them and no point of the viewport
\* rectangle is inside any of them (checked at the centre of every cell of
\* half a metre); the corners of the hole are at plus and minus half the
\* viewport size.  The other four are the top, bottom, left and right
\* faces of the cube, and no quad lies in the face opposite the screen.
Inv_C22 ==
    mask.verts # <<>> =>
        LET v == mask.verts
            m == Meters(ZVIEW_AUGMENTED_REALITY_MODE_MASK_CUBE_SIDE_LENGTH_METERS)
                     \div 2
            back == 2 * m
            hx == mask.viewportSizeMeters[1] \div 2
            hy == mask.viewportSizeMeters[2] \div 2
            Verts(q) == {QuadOf(v, q)[n] : n \in 1..4}
            Covering(p) ==
                {q \in 1..4 : InQuad(QuadOf(v, q), p)}
        IN  /\ Len(v) = 32
            /\ Len(v) = 4 * ZVIEW_AUGMENTED_REALITY_MODE_NUM_MASK_QUADS
            /\ \A q \in 1..4 : \A n \in 1..4 : QuadOf(v, q)[n][3] = 0
            /\ \A i \in (-m)..(m - 1) : \A j \in (-m)..(m - 1) :
                  Cardinality(Covering(<<2 * i + 1, 2 * j + 1>>)) =
                      IF i \in (-hx)..(hx - 1) /\ j \in (-hy)..(hy - 1)
                      THEN 0 ELSE 1
            /\ {<<-hx, hy, 0>>, <<hx, hy, 0>>, <<-hx, -hy, 0>>,
                 <<hx, -hy, 0>>} \subseteq UNION {Verts(q) : q \in 1..4}
            /\ Verts(5) = {<<x, m, z>> : x \in {-m, m}, z \in {0, back}}
            /\ Verts(6) = {<<x, -m, z>> : x \in {-m, m}, z \in {0, back}}
            /\ Verts(7) = {<<-m, y, z>> : y \in {-m, m}, z \in {0, back}}
            /\ Verts(8) = {<<m, y, z>> : y \in {-m, m}, z \in {0, back}}
            /\ \A q \in 1..8 : \E n \in 1..4 : QuadOf(v, q)[n][3] # back

\* the mask was computed for a viewport of 4 by 6 metres
Witness_C22 ==
    /\ mask.verts # <<>>
    /\ mask.viewportSizeMeters = <<Meters(4), Meters(6)>>

\* C23: in a tick of a connection in the mode setup state in which
\* zvGetConnectionModeSetupPhase says that this side is awaiting the
\* completion of the phase, setUpZviewMode issues no other call: no
\* setting is written, no resource is allocated or released, the phase is
\* not completed again; the flag stays set, and the main loop goes on (the
\* test is made again in the next tick of the connection).
Inv_C23 ==
    [][\A i \in OpsAt(ops', "zvGetConnectionModeSetupPhase") :
          ops'[i].v = 1 =>
              /\ step' = "update"
              /\ \A j \in DOMAIN ops' :
                    ops'[j].op \in {"zvUpdateConnection",
                                    "zvGetConnectionModeSetupPhase"}
                                       \cup RecordingPollOps
              /\ seen' = <<>>
              /\ hnd' = hnd /\ live' = live
              /\ latestMode' = latestMode
              /\ stdW' = stdW /\ stdH' = stdH /\ arW' = arW /\ arH' = arH
              /\ localDone'[ops'[i].c]
              /\ cstate'[ops'[i].c] = "ModeSetup"
              /\ pc' \in {"conn", "draw"}]_vars

\* a tick of the active session that found the completion phase of the
\* standard mode setup awaiting the remote side, with the render target
\* already allocated
Witness_C23 ==
    /\ step = "update"
    /\ \E i \in OpsAt(ops, "zvGetConnectionModeSetupPhase") :
          /\ ops[i].v = 1 /\ ops[i].k = "Completion"
          /\ ops[i].c = activeConn
    /\ latestMode = StandardMode
    /\ hnd["stdTexture"] # NULL

SettingsOps ==
    {"zvBeginSettingsBatch", "zvSetSettingU16", "zvEndSettingsBatch"}

\* the calls at i .. i + 3 of log o are one settings batch of connection c
\* that writes the given width and height
BatchAt(o, i, c, width, height) ==
    /\ i >= 1 /\ i + 3 <= Len(o)
    /\ \A j \in i..(i + 3) : o[j].c = c
    /\ o[i].op = "zvBeginSettingsBatch"
    /\ o[i + 1].op = "zvSetSettingU16"
    /\ o[i + 1].k = "width" /\ o[i + 1].v = width
    /\ o[i + 2].op = "zvSetSettingU16"
    /\ o[i + 2].k = "height" /\ o[i + 2].v = height
    /\ o[i + 3].op = "zvEndSettingsBatch"

\* C24: a tick that finds the initialization phase not yet completed by
\* this side completes it in the same tick.  For the standard mode the
\* four calls before the completion are one settings batch that writes the
\* window width and height, these are the only settings calls of the tick,
\* the batch is committed (the remote side sees the new size) and the same
\* size is recorded in the program.  For the augmented reality mode the
\* tick issues no settings call.
Inv_C24 ==
    \A i \in OpsAt(ops, "zvGetConnectionModeSetupPhase") :
        (ops[i].v = 0 /\ ops[i].k = "Initialization") =>
            LET c == ops[i].c
                settings == {j \in DOMAIN ops : ops[j].op \in SettingsOps}
                done == {j \in OpsAt(ops, "zvCompleteModeSetupPhase") :
                             ops[j].c = c /\ ops[j].k = "Initialization"}
            IN  /\ step = "update"
                /\ smode[c] = StandardMode =>
                      /\ done = {i + 5}
                      /\ BatchAt(ops, i + 1, c, winW, winH)
                      /\ settings = (i + 1)..(i + 4)
                      /\ setW[c] = winW /\ setH[c] = winH
                      /\ ~batchOpen[c]
                      /\ stdW = winW /\ stdH = winH
                      /\ localDone[c]
                /\ smode[c] = AugmentedRealityMode =>
                      /\ done = {i + 1}
                      /\ settings = {}
                      /\ seen = <<>>
                      /\ localDone[c]

\* the initialization phase of the standard mode was completed with a
\* window size that differs from the one recorded before
Witness_C24 ==
    /\ step = "update"
    /\ \E i \in OpsAt(ops, "zvCompleteModeSetupPhase") :
          /\ ops[i].k = "Initialization"
          /\ smode[ops[i].c] = StandardMode
    /\ <<winW, winH>> = <<640, 480>>
    /\ hist.suLast >= 0

\* the handle variables of the resources of a mode
KindsOf(mode) ==
    IF mode = StandardMode THEN Range(StdOrder)
    ELSE IF mode = AugmentedRealityMode THEN Range(ArOrder)
    ELSE {}

Inv_C26 ==
    [][\A i \in OpsAt(ops', "zvSendFrame") :
          ops'[i].k = StandardMode =>
              LET settings ==
                      {j \in DOMAIN ops' : ops'[j].op \in SettingsOps}
              IN  /\ IF <<stdW, stdH>> # <<winW, winH>>
                     THEN /\ BatchAt(ops', i + 1, ops'[i].c, winW, winH)
                          /\ settings = (i + 1)..(i + 4)
                          /\ setW'[ops'[i].c] = winW
                          /\ setH'[ops'[i].c] = winH
                          /\ ~batchOpen'[ops'[i].c]
                     ELSE settings = {}
                  /\ stdW' = winW' /\ stdH' = winH'
                  /\ winW' = winW /\ winH' = winH]_vars

\* a standard mode frame was sent and followed by a settings batch
Witness_C26 ==
    /\ step = "draw"
    /\ \E i \in OpsAt(ops, "zvSendFrame") :
          /\ ops[i].k = StandardMode
          /\ BatchAt(ops, i + 1, ops[i].c, winW, winH)
    /\ stdW = winW /\ stdH = winH

\* the names of the calls of log o, in order
Names(o) == [i \in DOMAIN o |-> o[i].op]

IsPrefix(s, t) == Len(s) <= Len(t) /\ s = SubSeq(t, 1, Len(s))

\* the log of this step is the one of an augmented reality tick that
\* received a frame
ArTickWithFrame ==
    /\ step = "draw"
    /\ \E i \in OpsAt(ops, "zvReceiveFrame") : ops[i].v # NoFrame

\* the order of an augmented reality tick with the render before the
\* request of the outgoing frame
RenderFirstOrder ==
    << "zvReceiveFrame", "zvGetFrameData", "zvReleaseReceivedFrame",
       "computeZviewAugmentedRealityModeProjectionMatrix",
       "updateZviewAugmentedRealityMode", "drawZviewAugmentedRealityMode",
       "zvGetNextFrameToSend", "zvSetFrameDataU64", "zvGetFrameBuffer",
       "zvSendFrame" >>

\* the order of an augmented reality tick with the request of the outgoing
\* frame and its tag before the render
SlotFirstOrder ==
    << "zvReceiveFrame", "zvGetFrameData", "zvReleaseReceivedFrame",
       "computeZviewAugmentedRealityModeProjectionMatrix",
       "updateZviewAugmentedRealityMode", "zvGetNextFrameToSend",
       "zvSetFrameDataU64", "drawZviewAugmentedRealityMode",
       "zvGetFrameBuffer", "zvSendFrame" >>

\* C27 as stated: an augmented reality tick that received a frame extracts
\* its fields, releases it, computes the projection matrix, recomputes the
\* transforms, renders, and only then requests the outgoing frame, tags
\* it, copies the pixels and sends it.
Orig_C27 ==
    ArTickWithFrame =>
        /\ IsPrefix(Names(ops), RenderFirstOrder)
        /\ HasOp(ops, "drawZviewAugmentedRealityMode")
        /\ \A i \in OpsAt(ops, "zvGetNextFrameToSend") :
              \E r \in OpsAt(ops, "drawZviewAugmentedRealityMode") : r < i

\* C27 (amended): an augmented reality tick that received a frame extracts
\* its fields, releases it, computes the projection matrix, recomputes the
\* transforms, requests the outgoing frame, and, when there is one, tags
\* it, renders, copies the pixels and sends it; the render never precedes
\* the request of the outgoing frame, and nothing is rendered when no
\* outgoing frame is available.
Amended_C27 ==
    ArTickWithFrame =>
        /\ IsPrefix(Names(ops), SlotFirstOrder)
        /\ Len(ops) \in {6, Len(SlotFirstOrder)}
        /\ ops[6].v = 0 <=> Len(ops) = 6
        /\ \A r \in OpsAt(ops, "drawZviewAugmentedRealityMode") :
              \E i \in OpsAt(ops, "zvGetNextFrameToSend") :
                  i < r /\ ops[i].v = 1

\* an augmented reality tick received a frame, rendered and sent
Witness_C27 ==
    /\ ArTickWithFrame
    /\ HasOp(ops, "drawZviewAugmentedRealityMode")
    /\ HasOp(ops, "zvSendFrame")

\* C28: an augmented reality tick without an incoming frame issues the
\* zvReceiveFrame call and nothing else: no transform, projection or mask
\* is recomputed, no outgoing frame is requested, nothing is rendered or
\* sent, and no variable of the program or of the connection changes.  A
\* tick that received a frame but got no outgoing frame stops at
\* zvGetNextFrameToSend: nothing is tagged, rendered or sent, and no
\* program variable changes, so the received tag is kept nowhere; a tag
\* sent in a tick is always the tag received in that same tick.
Inv_C28 ==
    [][\A i \in OpsAt(ops', "zvReceiveFrame") :
          /\ ops'[i].v = NoFrame =>
                /\ Len(ops') = 1
                /\ projection' = NoProjection
                /\ UNCHANGED <<progVars, netVars, mask, overlay>>
          /\ (ops'[i].v # NoFrame
                /\ \E j \in OpsAt(ops', "zvGetNextFrameToSend") :
                      ops'[j].v = 0) =>
                /\ ops'[Len(ops')].op = "zvGetNextFrameToSend"
                /\ ~HasOp(ops', "zvSetFrameDataU64")
                /\ ~HasOp(ops', "drawZviewAugmentedRealityMode")
                /\ ~HasOp(ops', "zvSendFrame")
                /\ UNCHANGED <<progVars, netVars>>
          /\ \A j \in OpsAt(ops', "zvSendFrame") :
                ops'[j].v = ops'[i].v /\ ops'[i].v # NoFrame]_vars

\* an augmented reality tick received a frame and found no outgoing frame
Witness_C28 ==
    /\ ArTickWithFrame
    /\ \E j \in OpsAt(ops, "zvGetNextFrameToSend") : ops[j].v = 0

\* an augmented reality tick found no incoming frame
Witness_C28_NoFrame ==
    /\ step = "draw"
    /\ \E i \in OpsAt(ops, "zvReceiveFrame") : ops[i].v = NoFrame

\* C29 as stated: a poll of a live session logs a state transition exactly
\* when the state it observes differs from the state the previous poll of
\* that same session observed, whatever other sessions were polled in
\* between.  (Stated for the polls of a live session that was polled
\* before and that follow the poll of another live session.)
Orig_C29 ==
    [][\A i \in OpsAt(ops', "zvGetVideoRecordingState") :
          (/\ alive'[ops'[i].c] = "live"
           /\ hist.vrSeen[ops'[i].c] # "NotAvailable"
           /\ \E d \in Conns \ {ops'[i].c} :
                 /\ alive[d] = "live" /\ alive'[d] = "live"
                 /\ vrLatest = hist.vrSeen[d]) =>
              ((\E j \in OpsAt(ops', "logTransition") :
                    ops'[j].c = ops'[i].c)
               <=> ops'[i].k # hist.vrSeen[ops'[i].c])]_vars

\* the failure-free main loop without recording never sees a recording
\* state other than the initial one
VrSeenConstant == hist.vrSeen = [c \in Conns |-> "NotAvailable"]

\* C30: a step of the pause/resume command calls zvPauseMode exactly when
\* there is an active session whose state is ModeActive, zvResumeMode
\* exactly when there is one whose state is ModePaused, each once and for
\* the active session, and otherwise issues no call and changes nothing
\* of the program or of the connections; no other step calls zvPauseMode
\* or zvResumeMode.
Inv_C30 ==
    [][/\ KeyPauseResume =>
            /\ HasOp(ops', "zvPauseMode") <=>
                  (activeConn # NULL /\ sstate[activeConn] = "ModeActive")
            /\ HasOp(ops', "zvResumeMode") <=>
                  (activeConn # NULL /\ sstate[activeConn] = "ModePaused")
            /\ Len(ops') <= 1
            /\ \A i \in DOMAIN ops' :
                  /\ ops'[i].op \in {"zvPauseMode", "zvResumeMode"}
                  /\ ops'[i].c = activeConn
            /\ ops' = <<>> => UNCHANGED <<progVars, netVars>>
       /\ (HasOp(ops', "zvPauseMode") \/ HasOp(ops', "zvResumeMode")) =>
            KeyPauseResume]_vars

\* the command resumed a paused mode
Witness_C30 ==
    /\ step = "msg"
    /\ HasOp(ops, "zvResumeMode")
    /\ activeConn # NULL /\ sstate[activeConn] = "ModePaused"

OverlaySettingOps == {"zvGetSettingF32", "zvSetSettingF32"}

\* C31: a step of the overlay control keys that reads or writes a setting
\* starts with an active session whose state is ModeActive and whose mode
\* is the augmented reality mode, and its calls are for that session; a
\* step in any other situation issues no call and leaves every overlay
\* setting as it was.
Inv_C31 ==
    [][/\ (\E i \in DOMAIN ops' : ops'[i].op \in OverlaySettingOps) =>
            /\ activeConn # NULL
            /\ sstate[activeConn] = "ModeActive"
            /\ smode[activeConn] = AugmentedRealityMode
            /\ \A i \in DOMAIN ops' : ops'[i].c = activeConn
       /\ ~(/\ activeConn # NULL
            /\ sstate[activeConn] = "ModeActive"
            /\ smode[activeConn] = AugmentedRealityMode) =>
            /\ ops' = <<>>
            /\ overlay'.s = overlay.s]_vars

\* a key step wrote an overlay setting of the active session
Witness_C31 ==
    /\ step = "key"
    /\ \E i \in DOMAIN ops : ops[i].op = "zvSetSettingF32"
    /\ overlay.s.OverlayOffsetX = F32(1)

\* a key step in standard mode issued no call
Witness_C31_Standard ==
    /\ step = "key" /\ ops = <<>>
    /\ activeConn # NULL
    /\ sstate[activeConn] = "ModeActive"
    /\ smode[activeConn] = StandardMode

\* C40 as stated: after any sequence of overlay keys from offset 0 the X
\* offset is within [-imageWidth, imageWidth], the Y offset within
\* [-imageHeight, imageHeight], and the scale factors within [0.01, 10].
Orig_C40 ==
    /\ InRangeF32(overlay.s.OverlayOffsetX, F32(-arW), F32(arW))
    /\ InRangeF32(overlay.s.OverlayOffsetY, F32(-arH), F32(arH))
    /\ InRangeF32(overlay.s.OverlayScaleX, F32(1), F32(1000))
    /\ InRangeF32(overlay.s.OverlayScaleY, F32(1), F32(1000))

\* what the handler does keep: both offsets within [-imageWidth,
\* imageWidth] and the scale factors within [0.01, 10]
OverlayWithinWidth ==
    /\ InRangeF32(overlay.s.OverlayOffsetX, F32(-arW), F32(arW))
    /\ InRangeF32(overlay.s.OverlayOffsetY, F32(-arW), F32(arW))
    /\ InRangeF32(overlay.s.OverlayScaleX, F32(1), F32(1000))
    /\ InRangeF32(overlay.s.OverlayScaleY, F32(1), F32(1000))

\* C32 as stated: after zvDestroyConnection for a connection no further
\* call of the transport is issued for that connection in the same tick,
\* and the active connection is never a destroyed one.
Orig_C32 ==
    /\ \A i \in OpsAt(ops, "zvDestroyConnection") :
          \A j \in DOMAIN ops :
              (j > i /\ TransportOp(ops[j])) => ops[j].c # ops[i].c
    /\ activeConn # NULL => alive[activeConn] = "live"

\* the part of C32 that holds: the active connection is a live one, and
\* apart from the video recording calls of the same tick no call follows
\* the zvDestroyConnection of a connection
DestroyedOnlyPolled ==
    /\ \A i \in OpsAt(ops, "zvDestroyConnection") :
          \A j \in DOMAIN ops :
              (j > i /\ TransportOp(ops[j]) /\ ops[j].c = ops[i].c) =>
                  ops[j].op \in RecordingPollOps
    /\ activeConn # NULL => alive[activeConn] = "live"

\* calls that tear down, allocate or release mode resources
ModeResourceOps ==
    {"tearDownZviewMode", "setUpZviewStandardMode",
     "setUpZviewAugmentedRealityMode", "alloc", "release"}

\* C33: a tick of a connection that is not the active one issues no mode
\* teardown, setup, allocation or release and leaves the remembered mode
\* and every mode resource as they were; the remembered mode and the mode
\* resources change only in an update tick of the active connection.
Inv_C33 ==
    [][/\ \A i \in OpsAt(ops', "zvUpdateConnection") :
            ops'[i].c # activeConn =>
                /\ \A j \in DOMAIN ops' : ops'[j].op \notin ModeResourceOps
                /\ UNCHANGED <<latestMode, hnd, live, texW, texH>>
       /\ <<latestMode, hnd, live, texW, texH>>'
              # <<latestMode, hnd, live, texW, texH>> =>
            /\ activeConn # NULL
            /\ \E i \in OpsAt(ops', "zvUpdateConnection") :
                  ops'[i].c = activeConn]_vars

\* a tick of a connection that is not the active one, while the active one
\* holds the resources of its mode
Witness_C33 ==
    /\ step = "update"
    /\ activeConn # NULL
    /\ \E i \in OpsAt(ops, "zvUpdateConnection") : ops[i].c # activeConn
    /\ latestMode = StandardMode
    /\ hnd["stdTexture"] # NULL

----------------------------------------------------------------------------
\* C34 as stated: every settings batch that is opened is closed in the same
\* tick on every path, a failing write inside the batch included: no tick
\* ends with a batch left open, and no batch is opened while one is open.
Orig_C34 == \A c \in Conns : alive[c] = "live" => ~batchOpen[c]

----------------------------------------------------------------------------
\* C36 as stated: at the end of every tick the status string is "Connected"
\* exactly when there is an active session and "Awaiting connection"
\* otherwise, the ticks in which a call fails part-way through the accept or
\* the close handling included.
Orig_C36 ==
    nodeStatus = (IF activeConn # NULL THEN ZVIEW_NODE_STATUS_CONNECTED
                  ELSE ZVIEW_NODE_STATUS_NOT_CONNECTED)

----------------------------------------------------------------------------
\* the call named o failed in the step whose log is l
FailedIn(l, o) == \E j \in DOMAIN l : l[j].op = "failed" /\ l[j].k = o

\* C38: a tick that observes the active session Closed or Error ends with
\* no active session, also when the mode teardown or the status update of
\* that tick fails; a tick that observes a session in AwaitingAcceptance
\* while there is no active session accepts it and makes it the active one
\* (unless the accept call itself fails); and the active session is never a
\* destroyed one, so the presenter is never left unable to accept for good.
Inv_C38 ==
    [][/\ \A i \in OpsAt(ops', "zvUpdateConnection") :
            LET c == ops'[i].c
            IN  /\ (ops'[i].k \in {"Closed", "Error"} /\ c = activeConn) =>
                       activeConn' = NULL
                /\ (ops'[i].k = "AwaitingAcceptance" /\ activeConn = NULL) =>
                       IF FailedIn(ops', "zvAcceptConnection")
                       THEN activeConn' = NULL
                       ELSE /\ HasOp(ops', "zvAcceptConnection")
                            /\ activeConn' = c
       /\ activeConn' # NULL => alive'[activeConn'] = "live"]_vars

\* a session is accepted after the teardown of the previous active session
\* failed: the remembered mode of that session is still there
Witness_C38 ==
    /\ step = "update"
    /\ hist.faults = 1
    /\ HasOp(ops, "zvAcceptConnection")
    /\ activeConn # NULL
    /\ latestMode # NullMode

\* the tick in which the teardown fails while the active session closes
Witness_C38_Failing ==
    /\ step = "update"
    /\ FailedIn(ops, "zcDestroyViewport")
    /\ \E i \in OpsAt(ops, "zvUpdateConnection") :
          ops[i].k \in {"Closed", "Error"} /\ accepted[ops[i].c]
    /\ activeConn = NULL

----------------------------------------------------------------------------
\* the step whose log is l rendered and sent a Standard-mode frame
StdFrameSent(l) ==
    \E i \in OpsAt(l, "drawZviewStandardMode") :
        \E j \in OpsAt(l, "zvSendFrame") : i < j /\ l[j].k = StandardMode

\* C35 as stated: a call of drawZview that renders and sends a Standard-mode
\* frame starts with every Standard-mode render object allocated and with
\* the render target allocated at the recorded image width and height, the
\* size of the render viewport; the call leaves the render target alone.
Orig_C35 ==
    [][StdFrameSent(ops') =>
           /\ step' = "draw"
           /\ \A k \in Range(StdOrder) : hnd[k] # NULL
           /\ texW = stdW /\ texH = stdH
           /\ UNCHANGED <<hnd, texW, texH>>]_vars

\* a Standard-mode frame sent at a size other than the initial one, in a
\* tick after a change of the resolution: the render target was allocated
\* again at the new size
StdFrameAtNewSize ==
    /\ step = "draw"
    /\ StdFrameSent(ops)
    /\ <<texW, texH>> # <<WindowWidthInit, WindowHeightInit>>
    /\ <<texW, texH>> = <<stdW, stdH>>
    /\ ~HasOp(ops, "zvBeginSettingsBatch")

----------------------------------------------------------------------------
\* C39: a switch-mode command that finds n supported modes looks at no more
\* than n entries and then returns; it computes no index modulo zero (with
\* no supported mode it looks at nothing and leaves the index alone); every
\* index it hands to the transport is in 0 .. n - 1; and when none of the
\* entries it looked at is available it issues no mode change.
Inv_C39 ==
    [][\A s \in OpsAt(ops', "zvGetNumConnectionSupportedModes") :
           LET n == ops'[s].v
           IN  /\ Cardinality(Visited(ops')) <= n
               /\ Len(ops') <= n + 2
               /\ ~HasOp(ops', "moduloByZero")
               /\ n = 0 => Len(ops') = 1 /\ modeIndex' = modeIndex
               /\ \A i \in Visited(ops') :
                      ops'[i].v >= 0 /\ ops'[i].v < n
               /\ modeIndex' >= 0
               /\ n > 0 /\ Visited(ops') # {} => modeIndex' < n
               /\ (\A i \in Visited(ops') : ops'[i].k # "Available") =>
                      /\ ~HasOp(ops', "zvSetConnectionMode")
                      /\ UNCHANGED <<cstate, cmode>>]_vars

\* a command that found every supported mode not available, with the index
\* wrapped around to where it was
Witness_C39 ==
    /\ step = "msg"
    /\ ops # <<>> /\ ops[1].op = "zvGetNumConnectionSupportedModes"
    /\ ops[1].v = NumSupportedModes
    /\ Cardinality(Visited(ops)) = NumSupportedModes
    /\ ~HasOp(ops, "zvSetConnectionMode")
    /\ modeIndex = 1

\* a command of a session that supports no mode
Witness_C39_Empty ==
    /\ step = "msg"
    /\ ops # <<>> /\ ops[1].op = "zvGetNumConnectionSupportedModes"
    /\ ops[1].v = 0
    /\ modeIndex = 1

----------------------------------------------------------------------------
\* a mode setup tick of a session that is not awaiting the remote side
\* completes the current phase in that tick
SignalsWhenNotAwaiting ==
    [][\A i \in OpsAt(ops', "zvGetConnectionModeSetupPhase") :
           (ops'[i].v = 0 /\ smode'[ops'[i].c] \in Modes) =>
               /\ localDone'[ops'[i].c]
               /\ \E j \in OpsAt(ops', "zvCompleteModeSetupPhase") :
                      /\ j > i /\ ops'[j].c = ops'[i].c
                      /\ ops'[j].k = ops'[i].k]_vars

\* the active session is in the setup of the Standard or of the augmented
\* reality mode
InModeSetup(c) ==
    /\ activeConn = c /\ alive[c] = "live"
    /\ cstate[c] = "ModeSetup" /\ cmode[c] \in Modes

\* C37: with no failing call and a remote side that eventually completes
\* every setup phase, a session in the setup of the Standard or the
\* augmented reality mode eventually has the mode active; in each phase
\* this side completes the phase in the first mode setup tick in which it
\* is not awaiting the remote side.
Inv_C37 ==
    /\ SignalsWhenNotAwaiting
    /\ \A c \in Conns : InModeSetup(c) ~> (cstate[c] = "ModeActive")

\* both phases of a setup are completed by both sides: the mode is active
\* with the resources the Completion phase allocated
Witness_C37 ==
    /\ step = "update"
    /\ activeConn # NULL
    /\ cstate[activeConn] = "ModeActive"
    /\ latestMode = cmode[activeConn]
    /\ latestMode \in Modes
    /\ \A k \in KindsOf(latestMode) : hnd[k] # NULL

====
